---- MODULE Spec2Model ----
(***************************************************************************)
(* A model of qrexec-proxy: the pipeline engine of src/qrexec-proxy.py,    *)
(* the non-blocking byte-channel helpers of src/plugins/__init__.py and    *)
(* the reference filters of src/plugins/.                                  *)
(*                                                                         *)
(* One session is modelled: main() builds the pipe fabric, schedules one   *)
(* asyncio task per stage and waits with FIRST_EXCEPTION; asyncio.run()    *)
(* then cancels what is left and the process exits.  The source VM (the    *)
(* peer of fd 0 and fd 1) and the qrexec-client-vm subprocess are the      *)
(* environment.                                                            *)
(*                                                                         *)
(* Stages are numbered 0 (source task), 1..N (filters), N+1 (destination   *)
(* task).  Forward pipe F(k) is written by stage k and read by stage k+1;  *)
(* reverse pipe R(k) is written by stage k+1 and read by stage k.          *)
(*                                                                         *)
(* Bytes never change on their way, so the source VM submits the bytes     *)
(* 1, 2, 3, ... and the destination emits 11, 12, ...: being distinct,     *)
(* any duplication, reordering or mixing of the two directions shows.      *)
(***************************************************************************)
EXTENDS Integers, Sequences, FiniteSets, TLC

\* ------------------------------------------------------------------ bounds
\* Bytes the source VM may write to the proxy's stdin.
MaxIn == 4
\* Bytes the destination RPC client may write to its stdout.
MaxOut == 2
\* How many sessions of one chain run the count stage's admission check.
MaxSessions == 3
\* How far the clock runs, in ticks, and how many ticks make a second.
MaxClock == 4
TicksPerSec == 2
\* Capacity of a kernel pipe (65536 on Linux), scaled down.
PipeCap == 2
\* Buffer size of the io.BufferedWriter that os.fdopen() returns (the pipe's
\* st_blksize, 4096), scaled down.
WBufSize == 1
\* READ_BUF_SIZE (1024*1024), scaled down.
READ_BUF_SIZE == 2

\* buf_size of a streamline stage (10 MB by default), scaled down.
BufSize == 2

\* write(2) on a pipe is atomic up to PIPE_BUF bytes, which is the buffer size too.
PIPE_BUF == WBufSize

NONE == "none"
Min(a, b) == IF a <= b THEN a ELSE b
Drop(s, n) == SubSeq(s, n + 1, Len(s))
Take(s, n) == SubSeq(s, 1, n)
IsPrefix(s, t) == Len(s) <= Len(t) /\ s = SubSeq(t, 1, Len(s))

\* ------------------------------------------------------------- pipe fabric
STDIN == <<"in", 0>>
STDOUT == <<"out", 0>>
F(k) == <<"F", k>>
R(k) == <<"R", k>>

\* The pipes of a chain of n filters: fd 0, fd 1, the two initial pipes and two
\* per filter.
PipeIds(n) == {STDIN, STDOUT} \cup {F(k) : k \in 0..n} \cup {R(k) : k \in 0..n}

\* The engine's own pipes: open_pipe() is called twice before the loop and twice in it.
EnginePipes(n) == {F(k) : k \in 0..n} \cup {R(k) : k \in 0..n}

VARIABLES
    plugins,    \* conf[chain]['plugins'] with each stage's user configuration
    budget,     \* the bytes the source VM (nin) and the destination (nout) send at most
    startup,    \* what main() meets before it builds the pipeline
    io,         \* the pipes and the file objects on them
    co,         \* the copy coroutines: one per stage (0..N) and direction
    gexc,       \* per stage: the exception asyncio.gather() handed to the awaiting task
    task,       \* per stage (0..N+1): the asyncio task main() created
    sub,        \* the qrexec-client-vm subprocess
    mainPc,     \* where main() is
    mainOutcome,\* how main() ended
    mainErr,    \* the stage whose exception main() raised
    failSeq,    \* the stages whose task ended with an error, in time order
    cancelCalled,\* the stages main() called task.cancel() on
    runPc,      \* where asyncio.run() is
    exitCode,   \* the process's exit status
    clock,      \* time.time(), in ticks of 1/TicksPerSec seconds
    lock_path,  \* SysLock: the directory <count file>.lock exists
    count_file, \* the chain's counter file: its characters
    sess,       \* the sessions of the chain that run check_count()
    checks,     \* the admission checks made so far, in time order
    raced,      \* a session took the lock while another had its file still open
    can_open,   \* open() of the counter file succeeds
    conf        \* conf.get(chain) of the configuration file main() loads

\* The state of the count stage's counter file and of the sessions that share it.
countVars == <<clock, lock_path, count_file, sess, checks, raced, can_open>>

\* The state of the session's pipeline.
pipelineVars == <<conf, plugins, budget, startup, io, co, gexc, task, sub, mainPc, mainOutcome,
                  mainErr, failSeq, cancelCalled, runPc, exitCode>>

vars == <<pipelineVars, countVars>>

N == Len(plugins)
Stages == 0..(N + 1)
Filters == 1..N
SRC == 0
DST == N + 1
Dirs == {"fwd", "rev"}
Copiers == {<<s, d>> : s \in 0..N, d \in Dirs}

\* ---------------------------------------------------- non-blocking file objects
\* io.hist[p]  : every byte ever written into pipe p, in order
\* io.rpos[p]  : how many of them have been read out
\* io.wbuf[p]  : the unflushed bytes in the BufferedWriter on p's write end
\* io.ropen[p] : who holds p's read end open: "obj" (the proxy's file object),
\*               "peer" (the source VM or the subprocess)
\* io.wopen[p] : who holds p's write end open
\* io.nclose[<<p, e>>] : how often the proxy closed the descriptor of p's end e
\* io.journal : how many log records went to the systemd journal
\* io.sniffed : the data records of the sniff stage among them, in log order
\* io.blocks[p] : the buffers a streamline stage handed to write_noblock for
\*               p's write end, in time order
Content(f, p) == Drop(f.hist[p], f.rpos[p])
Free(f, p) == PipeCap - (Len(f.hist[p]) - f.rpos[p])

\* write(2) on a non-blocking pipe with `free` bytes of room.
RawAccept(len, free) ==
    IF len <= PIPE_BUF THEN (IF len <= free THEN len ELSE 0) ELSE Min(len, free)

raw_write(f, p, d) ==
    IF f.ropen[p] = {} THEN [io |-> f, n |-> 0, err |-> "BrokenPipeError"]
    ELSE LET n == RawAccept(Len(d), Free(f, p)) IN
         IF n = 0 /\ Len(d) > 0 THEN [io |-> f, n |-> 0, err |-> "EAGAIN"]
         ELSE [io |-> [f EXCEPT !.hist[p] = @ \o Take(d, n)], n |-> n, err |-> NONE]

\* BufferedWriter's flush of its buffer: what cannot be written stays buffered.
flush_unlocked(f, p) ==
    IF f.wbuf[p] = <<>> THEN [io |-> f, err |-> NONE]
    ELSE LET r == raw_write(f, p, f.wbuf[p]) IN
         IF r.err = "BrokenPipeError" THEN [io |-> f, err |-> "BrokenPipeError"]
         ELSE LET rest == Drop(f.wbuf[p], r.n) IN
              [io |-> [r.io EXCEPT !.wbuf[p] = rest],
               err |-> IF rest = <<>> THEN NONE ELSE "BlockingIOError"]

\* writer.flush()
writer_flush(f, p) ==
    IF "obj" \notin f.wopen[p] THEN [io |-> f, err |-> "ValueError"]
    ELSE flush_unlocked(f, p)

\* Write d with the buffer empty: raw writes while more than a buffer is left,
\* the rest is buffered.
write_emptied(f, p, d) ==
    LET r == raw_write(f, p, d) IN
    IF r.err = "BrokenPipeError" THEN [io |-> f, l |-> 0, err |-> "BrokenPipeError"]
    ELSE LET left == Drop(d, r.n) IN
         IF Len(left) <= WBufSize
         THEN [io |-> [r.io EXCEPT !.wbuf[p] = left], l |-> Len(d), err |-> NONE]
         ELSE [io |-> [r.io EXCEPT !.wbuf[p] = Take(left, WBufSize)],
               l |-> r.n + WBufSize, err |-> "BlockingIOError"]

\* writer.write(d): l is the number of bytes of d the writer accepted (the
\* return value, or characters_written of the BlockingIOError).
writer_write(f, p, d) ==
    IF "obj" \notin f.wopen[p] THEN [io |-> f, l |-> 0, err |-> "ValueError"]
    ELSE IF Len(d) <= WBufSize - Len(f.wbuf[p])
    THEN [io |-> [f EXCEPT !.wbuf[p] = @ \o d], l |-> Len(d), err |-> NONE]
    ELSE LET fl == flush_unlocked(f, p) IN
         IF fl.err = "BrokenPipeError" THEN [io |-> f, l |-> 0, err |-> "BrokenPipeError"]
         ELSE IF fl.err = "BlockingIOError"
         THEN LET avail == WBufSize - Len(fl.io.wbuf[p]) IN
              IF Len(d) <= avail
              THEN [io |-> [fl.io EXCEPT !.wbuf[p] = @ \o d], l |-> Len(d), err |-> NONE]
              ELSE [io |-> [fl.io EXCEPT !.wbuf[p] = @ \o Take(d, avail)],
                    l |-> avail, err |-> "BlockingIOError"]
         ELSE IF Len(d) <= WBufSize
         THEN [io |-> [fl.io EXCEPT !.wbuf[p] = d], l |-> Len(d), err |-> NONE]
         ELSE write_emptied(fl.io, p, d)

\* writer.close(): flush, close the descriptor whatever the flush did, and
\* raise what the flush raised.  A second close() does nothing.
writer_close(f, p) ==
    IF "obj" \notin f.wopen[p] THEN [io |-> f, err |-> NONE]
    ELSE LET fl == flush_unlocked(f, p) IN
         [io |-> [fl.io EXCEPT !.wopen[p] = @ \ {"obj"},
                               !.wbuf[p] = <<>>,
                               !.nclose[<<p, "w">>] = @ + 1],
          err |-> fl.err]

\* reader.close(); it never raises.
reader_close(f, p) ==
    IF "obj" \notin f.ropen[p] THEN [io |-> f, err |-> NONE]
    ELSE [io |-> [f EXCEPT !.ropen[p] = @ \ {"obj"}, !.nclose[<<p, "r">>] = @ + 1],
          err |-> NONE]

\* reader.read(size): what is there, up to size bytes; b'' at EOF (no writer
\* left and nothing buffered); None when it would block; read(0) is b'' at once.
reader_read(f, p, size) ==
    IF "obj" \notin f.ropen[p] THEN [io |-> f, data |-> <<>>, res |-> "ValueError"]
    ELSE IF size = 0 THEN [io |-> f, data |-> <<>>, res |-> "data"]
    ELSE LET c == Content(f, p) IN
         IF c # <<>>
         THEN LET n == Min(size, Len(c)) IN
              [io |-> [f EXCEPT !.rpos[p] = @ + n], data |-> Take(c, n), res |-> "data"]
         ELSE IF f.wopen[p] = {}
         THEN [io |-> f, data |-> <<>>, res |-> "eof"]
         ELSE [io |-> f, data |-> <<>>, res |-> "None"]

\* ------------------------------------------------------------------ plugins
Plugin(name, s2d, d2s) == [name |-> name, src2dst_limit |-> s2d, dst2src_limit |-> d2s]

\* A stage of conf[chain]['plugins'] with its entry of conf[chain]['config'];
\* pass reads no configuration.
Session(chain, nin, nout) == [plugins |-> chain, nin |-> nin, nout |-> nout]

\* The sessions that are run: the chain, and how many bytes the source VM and
\* the destination have to send at most.
Sessions ==
    { Session(<<>>, MaxIn, MaxOut - 1),
      Session(<<Plugin("pass", -1, -1)>>, MaxIn - 2, MaxOut - 1),
      Session(<<Plugin("byte_limit", 1, -1)>>, MaxIn - 2, MaxOut - 1),
      Session(<<Plugin("byte_limit", 0, 1)>>, MaxIn - 3, MaxOut),
      Session(<<Plugin("byte_limit", 3, 0)>>, MaxIn - 1, MaxOut - 2),
      Session(<<Plugin("stop_dst", 0, -1)>>, MaxIn - 2, MaxOut - 1),
      Session(<<Plugin("pass", -1, -1), Plugin("pass", -1, -1)>>, MaxIn - 3, MaxOut - 2) }

\* A timeout stage with its src2dst_timeout and dst2src_timeout seconds.
TimeoutPlugin(s2d, d2s) ==
    [name |-> "timeout", src2dst_timeout |-> s2d, dst2src_timeout |-> d2s]

\* The sessions whose chain is one timeout stage.
TimeoutSessions ==
    { Session(<<TimeoutPlugin(1, -1)>>, MaxIn, MaxOut - 2),
      Session(<<TimeoutPlugin(-1, 1)>>, MaxIn - 3, MaxOut - 1) }

\* What main() can meet before the pipeline is built (lines 130-184).
StartupCases == {"ok", "no_source_vm", "bad_argv", "no_chain", "no_plugin_file", "no_class"}

\* QrexecProxyPlugin_stop_dst.__init__ hands this to byte_limit's constructor.
stop_dst_config == [src2dst_limit |-> -1, dst2src_limit |-> 0]

\* A stop_dst that hands the user's configuration on.
byte_limit_config_user(pl) ==
    [src2dst_limit |-> pl.src2dst_limit, dst2src_limit |-> pl.dst2src_limit]

\* The configuration QrexecProxyPlugin_byte_limit.__init__ reads.
byte_limit_config(pl) ==
    IF pl.name = "stop_dst" THEN stop_dst_config
    ELSE [src2dst_limit |-> pl.src2dst_limit, dst2src_limit |-> pl.dst2src_limit]

\* byte_limit.proxy(): src2dst_limit bounds src_r -> dst_w, dst2src_limit dst_r -> src_w.
limit_of(pl, d) ==
    IF d = "fwd" THEN byte_limit_config(pl).src2dst_limit
    ELSE byte_limit_config(pl).dst2src_limit

\* A count stage whose proxy() starts its copies at once.
awaits_check_never(pl) == FALSE

\* count.proxy() awaits check_count() before it starts its copies.
awaits_check(pl) == pl.name = "count"

\* The stages whose proxy() is byte_limit's connect_then_discard().
IsLimit(s) == s \in Filters /\ plugins[s].name \in {"byte_limit", "stop_dst"}

\* A sniff stage with its `decode` parameter ("base64" is the default).
SniffPlugin(decode) == [name |-> "sniff", decode |-> decode]

\* The stages whose proxy() gathers two connect_sniff().
IsSniff(s) == s \in Filters /\ plugins[s].name = "sniff"

\* A streamline stage with its buf_size; delay_read and delay_write keep
\* their default of half a second, so that sleep() always awaits.
StreamlinePlugin(buf_size) == [name |-> "streamline", buf_size |-> buf_size]

\* The stages whose proxy() gathers two connect_streamline().
IsStreamline(s) == s \in Filters /\ plugins[s].name = "streamline"

\* The endpoints of the copy of stage s in direction d.
Reader(c) == IF c[2] = "fwd" THEN (IF c[1] = 0 THEN STDIN ELSE F(c[1] - 1)) ELSE R(c[1])
Writer(c) == IF c[2] = "fwd" THEN F(c[1]) ELSE (IF c[1] = 0 THEN STDOUT ELSE R(c[1] - 1))

\* A copy that is told to move one byte.
size_arg_one(c) == 1

\* connect_noblock's arguments in that copy.
close_arg(c) == ~IsLimit(c[1])
size_arg(c) == IF IsLimit(c[1]) THEN limit_of(plugins[c[1]], c[2]) ELSE -1

\* ------------------------------------------------------------------ logging
\* A logger that writes to the process's standard output.
get_logger_stdout == [handlers |-> {"stdout"}, propagate |-> FALSE]

\* get_logger(): the logger has a JournalHandler and does not propagate.
get_logger == [handlers |-> {"journal"}, propagate |-> FALSE]

\* logging.basicConfig(handlers=[]): the root logger is given no handler.
root_handlers == {}

\* Where a record of logger lg goes: to its handlers, to the root's when it
\* propagates, and to logging.lastResort (stderr) when that finds none.
log_targets(lg) ==
    LET found == lg.handlers \cup (IF lg.propagate THEN root_handlers ELSE {})
    IN  IF found = {} THEN {"stderr"} ELSE found

\* LOG.info(), LOG.debug(), LOG.error(): one record; a record that goes to
\* stdout is text on descriptor 1 (the byte 0 stands for it).
log(f) ==
    LET t == log_targets(get_logger) IN
    [f EXCEPT !.journal = IF "journal" \in t THEN @ + 1 ELSE @,
              !.hist[STDOUT] = IF "stdout" \in t THEN Append(@, 0) ELSE @]

\* -------------------------------------------------------------------- sniff
\* Log text is a sequence of characters: a base64 character is its position
\* in the alphabet (0..63) and 64 for '=', a hex digit is its value (0..15).

\* base64.b64encode() of up to three bytes: four characters, '=' where a
\* byte is missing.
b64_group(g) ==
    LET b(k) == IF k <= Len(g) THEN g[k] ELSE 0
        n == b(1) * 65536 + b(2) * 256 + b(3)
    IN  << n \div 262144, (n \div 4096) % 64,
           IF Len(g) < 2 THEN 64 ELSE (n \div 64) % 64,
           IF Len(g) < 3 THEN 64 ELSE n % 64 >>

\* decode_base64(buf): base64.b64encode(buf).decode('ascii').
RECURSIVE decode_base64(_)
decode_base64(buf) ==
    IF buf = <<>> THEN <<>> ELSE b64_group(Take(buf, Min(3, Len(buf)))) \o decode_base64(Drop(buf, 3))

\* decode_hex(buf): buf.hex(), two digits per byte.
RECURSIVE decode_hex(_)
decode_hex(buf) ==
    IF buf = <<>> THEN <<>> ELSE <<buf[1] \div 16, buf[1] % 16>> \o decode_hex(Tail(buf))

\* self.decode_func, chosen by the constructor.
decode_func(pl, buf) ==
    IF pl.decode = "base64" THEN decode_base64(buf) ELSE decode_hex(buf)

\* A proxy() that starts both its copies with src2dst=True.
src2dst_arg_true(c) == TRUE

\* proxy(): connect_sniff(src_r, dst_w, True) and connect_sniff(dst_r, src_w, False).
src2dst_arg(c) == c[2] = "fwd"

\* self.log(buf_str, src2dst): one info record '(data:chain:qrexec) src -> dst:
\* buf_str', the two names swapped for the way back.
sniff_log(f, buf_str, src2dst) ==
    [log(f) EXCEPT !.sniffed = Append(@, [src |-> IF src2dst THEN "src" ELSE "dst",
                                          dst |-> IF src2dst THEN "dst" ELSE "src",
                                          text |-> buf_str])]

\* connect_sniff, lines 97-98: the chunk is logged once it is read; the other
\* stages log no data.
tap(c, f, buf) ==
    IF IsSniff(c[1]) THEN sniff_log(f, decode_func(plugins[c[1]], buf), src2dst_arg(c))
    ELSE f

\* ------------------------------------------------------------ copy coroutines
\* co[c].pc    : "new", "read", "read_full", "write", "flush", "discard", "done"
\* co[c].buf   : to_write of write_noblock
\* co[c].rsize : rsize of connect_noblock
\* co[c].chunks: chunks of read_full_noblock, joined; after its return, buf of
\*               connect_streamline
\* co[c].exc   : the exception the coroutine is unwinding with, or ended with
\* co[c].cancel: a CancelledError waits for it at its await
\* co[c].timed_out: asyncio.wait_for() cancelled it because its timeout passed
\*
\* asyncio is cooperative: a coroutine runs from one await to the next without
\* any other coroutine of the process running.  A step of the model is such a
\* run; st.halt says how it ends: "go" (not yet), "yield" (await
\* asyncio.sleep(0)), "done".  The steps of the environment are taken between them.

\* connect_noblock, lines 154-161: the size of the next read.
read_size(rsize) ==
    IF rsize = -1 \/ rsize > READ_BUF_SIZE THEN READ_BUF_SIZE ELSE rsize

\* A limit that is never counted down.
next_rsize_same(rsize, n) == rsize

\* rsize = rsize - len(buf), where a limit is set.
next_rsize(rsize, n) == IF rsize = -1 THEN -1 ELSE rsize - n

\* A retry that writes the whole buffer again.
rest_to_write_all(to_write, l) == to_write

\* write_noblock, line 139: to_write = to_write[l:]
rest_to_write(to_write, l) == Drop(to_write, l)

\* The try block is left with exception e: on to the finally block (line 170).
raise_in_try(st, e) ==
    [st EXCEPT !.l.pc = "flush", !.l.exc = e, !.l.buf = <<>>]

\* The coroutine ends with exception e (NONE: it returns).
ends_with(st, e) == [st EXCEPT !.l.exc = e, !.l.buf = <<>>, !.halt = "done"]

\* connect_noblock, lines 153-166: the loop head and read_noblock; connect_sniff
\* is the same loop with size -1 and a log record per chunk.
co_read(c, st) ==
    IF st.l.rsize = 0 THEN [st EXCEPT !.l.pc = "flush"]
    ELSE LET r == reader_read(st.io, Reader(c), read_size(st.l.rsize)) IN
         CASE r.res = "None" -> [st EXCEPT !.halt = "yield"]
           [] r.res = "eof" -> [st EXCEPT !.l.pc = "flush"]
           [] r.res = "ValueError" -> raise_in_try(st, "ValueError")
           [] r.res = "data" ->
                 [st EXCEPT !.io = tap(c, r.io, r.data), !.l.pc = "write", !.l.buf = r.data,
                            !.l.rsize = next_rsize(@, Len(r.data))]

\* A read_full_noblock that asks for size bytes at every read.
read_full_size_same(size, chunks) == size

\* read_full_noblock, lines 52 and 58-59: l, the size of the next read.
read_full_size(size, chunks) == IF size > 0 THEN size - Len(chunks) ELSE size

\* A connect_streamline that takes what the first read_noblock returns.
co_read_chunk(c, st) ==
    LET r == reader_read(st.io, Reader(c), plugins[c[1]].buf_size) IN
    CASE r.res = "None" -> [st EXCEPT !.halt = "yield"]
      [] r.res = "ValueError" -> raise_in_try(st, "ValueError")
      [] r.res = "eof" -> [st EXCEPT !.l.pc = "flush"]
      [] r.res = "data" ->
            [st EXCEPT !.io = [log(r.io) EXCEPT !.blocks[Writer(c)] = Append(@, r.data)],
                       !.l.chunks = r.data, !.l.buf = r.data, !.l.pc = "write",
                       !.halt = "yield"]

\* connect_streamline, lines 77-80: read_full_noblock(reader, size=buf_size)
\* (lines 51-60), then the sleep before the write.  The block is empty: on to
\* the finally block; else write_noblock is called with it once sleep() is over.
co_read_full(c, st) ==
    LET size == plugins[c[1]].buf_size
        r == reader_read(st.io, Reader(c), read_full_size(size, st.l.chunks))
    IN  CASE r.res = "None" -> [st EXCEPT !.halt = "yield"]
          [] r.res = "ValueError" -> raise_in_try(st, "ValueError")
          [] r.res = "data" /\ r.data # <<>> ->
                [st EXCEPT !.io = r.io, !.l.chunks = @ \o r.data]
          [] OTHER ->
                IF st.l.chunks = <<>> THEN [st EXCEPT !.l.pc = "flush"]
                ELSE [st EXCEPT !.io = [log(@) EXCEPT !.blocks[Writer(c)] =
                                                         Append(@, st.l.chunks)],
                                !.l.buf = st.l.chunks, !.l.pc = "write", !.halt = "yield"]

\* What follows write_noblock's return: connect_noblock and connect_sniff read
\* on; connect_streamline (lines 82-86) leaves its loop after a short block
\* and else sleeps before it reads the next one.
after_write(c, st) ==
    IF ~IsStreamline(c[1]) THEN [st EXCEPT !.l.pc = "read", !.l.buf = <<>>]
    ELSE IF Len(st.l.chunks) < plugins[c[1]].buf_size
    THEN [st EXCEPT !.l.pc = "flush", !.l.buf = <<>>]
    ELSE [st EXCEPT !.io = log(@), !.l.pc = "read_full", !.l.buf = <<>>, !.l.chunks = <<>>,
                    !.halt = "yield"]

\* A write_noblock that takes a write that would block as having written nothing.
written_none_on_block(r) == IF r.err = "BlockingIOError" THEN 0 ELSE r.l

\* write_noblock, lines 123-128: l is what writer.write() returned, or
\* characters_written of the BlockingIOError it raised.
written(r) == r.l

\* write_noblock(writer, buf, flush=False), lines 122-140.
co_write(c, st) ==
    LET r == writer_write(st.io, Writer(c), st.l.buf) IN
    IF r.err \in {"BrokenPipeError", "ValueError"} THEN raise_in_try(st, r.err)
    ELSE IF written(r) = Len(st.l.buf)
    THEN after_write(c, [st EXCEPT !.io = r.io])
    ELSE [st EXCEPT !.io = r.io, !.l.buf = rest_to_write(@, written(r)), !.halt = "yield"]

\* A connect_then_discard that goes on to discard_noblock with dst still open.
co_flush_keeps_dst(c, st) ==
    LET r == writer_flush(st.io, Writer(c)) IN
    CASE r.err = "BlockingIOError" -> [st EXCEPT !.io = r.io, !.halt = "yield"]
      [] r.err \in {"BrokenPipeError", "ValueError"} -> ends_with([st EXCEPT !.io = r.io], r.err)
      [] r.err = NONE ->
            IF close_arg(c)
            THEN ends_with([st EXCEPT !.io = writer_close(reader_close(r.io, Reader(c)).io,
                                                          Writer(c)).io], st.l.exc)
            ELSE IF st.l.exc # NONE THEN ends_with([st EXCEPT !.io = r.io], st.l.exc)
            ELSE [st EXCEPT !.io = r.io, !.l.pc = "discard"]

\* connect_noblock's finally block, lines 170-175, and what follows the call in
\* connect_then_discard (byte_limit.py, lines 47-48).
co_flush(c, st) ==
    LET r == writer_flush(st.io, Writer(c)) IN
    CASE r.err = "BlockingIOError" -> [st EXCEPT !.io = r.io, !.halt = "yield"]
      [] r.err \in {"BrokenPipeError", "ValueError"} -> ends_with([st EXCEPT !.io = r.io], r.err)
      [] r.err = NONE ->
            IF close_arg(c)
            THEN ends_with([st EXCEPT !.io = writer_close(reader_close(r.io, Reader(c)).io,
                                                          Writer(c)).io], st.l.exc)
            ELSE IF st.l.exc # NONE THEN ends_with([st EXCEPT !.io = r.io], st.l.exc)
            ELSE [st EXCEPT !.io = writer_close(r.io, Writer(c)).io, !.l.pc = "discard"]

\* discard_noblock(src), lines 68-77.
co_discard(c, st) ==
    LET r == reader_read(st.io, Reader(c), READ_BUF_SIZE) IN
    CASE r.res = "None" -> [st EXCEPT !.halt = "yield"]
      [] r.res = "data" -> [st EXCEPT !.io = r.io]
      [] r.res = "eof" -> ends_with([st EXCEPT !.io = reader_close(st.io, Reader(c)).io], NONE)
      [] r.res = "ValueError" -> ends_with(st, "ValueError")

\* The coroutine's next operation.
co_op(c, st) ==
    CASE st.l.pc = "read" -> co_read(c, st)
      [] st.l.pc = "read_full" -> co_read_full(c, st)
      [] st.l.pc = "write" -> co_write(c, st)
      [] st.l.pc = "flush" -> co_flush(c, st)
      [] st.l.pc = "discard" -> co_discard(c, st)

\* The coroutine runs to its next await or to its end.
RECURSIVE run_to_await(_, _)
run_to_await(c, st) == IF st.halt # "go" THEN st ELSE run_to_await(c, co_op(c, st))

\* CancelledError is raised at the coroutine's await asyncio.sleep(0): inside
\* the try block (on to the finally block), inside flush_noblock in the finally
\* block (the closes are skipped) or inside discard_noblock (its finally
\* closes the reader).
co_cancelled(c, st) ==
    CASE st.l.pc \in {"read", "read_full", "write"} ->
              [raise_in_try(st, "CancelledError") EXCEPT !.l.cancel = FALSE]
      [] st.l.pc = "flush" -> ends_with(st, "CancelledError")
      [] st.l.pc = "discard" ->
              ends_with([st EXCEPT !.io = reader_close(st.io, Reader(c)).io], "CancelledError")

\* asyncio.wait_for(): the copy it cancelled at its timeout ended cancelled,
\* TimeoutError is raised; any other end of the copy is handed on as it is.
wait_for_exc(l) ==
    IF l.timed_out /\ l.exc = "CancelledError" THEN "TimeoutError" ELSE l.exc

\* The state the run left is written back; gather() hands the first exception
\* of its children to the task that awaits it.
Apply(c, st) ==
    /\ io' = st.io
    /\ co' = [co EXCEPT ![c] = IF st.halt = "done"
                               THEN [st.l EXCEPT !.pc = "done", !.cancel = FALSE,
                                                 !.exc = wait_for_exc(st.l)]
                               ELSE st.l]
    /\ gexc' = IF st.halt = "done" /\ st.l.exc # NONE /\ gexc[c[1]] = NONE
               THEN [gexc EXCEPT ![c[1]] = wait_for_exc(st.l)] ELSE gexc

Live(c) == co[c].pc \in {"read", "read_full", "write", "flush", "discard"}

\* The event loop resumes the coroutine of stage c[1], direction c[2].
CoStep(c) ==
    /\ Live(c)
    /\ ~co[c].cancel
    /\ Apply(c, run_to_await(c, [io |-> io, l |-> co[c], halt |-> "go"]))
    /\ UNCHANGED <<countVars, conf, plugins, budget, startup, task, sub, mainPc, mainOutcome, mainErr, failSeq,
                   cancelCalled, runPc, exitCode>>

\* The event loop resumes a cancelled coroutine.
CoCancelled(c) ==
    /\ Live(c)
    /\ co[c].cancel
    /\ Apply(c, run_to_await(c, co_cancelled(c, [io |-> io, l |-> co[c], halt |-> "go"])))
    /\ UNCHANGED <<countVars, conf, plugins, budget, startup, task, sub, mainPc, mainOutcome, mainErr, failSeq,
                   cancelCalled, runPc, exitCode>>

\* timeout.proxy(): src2dst_timeout bounds src_r -> dst_w, dst2src_timeout dst_r -> src_w.
timeout_of(pl, d) == IF d = "fwd" THEN pl.src2dst_timeout ELSE pl.dst2src_timeout

\* The copy runs inside asyncio.wait_for() with a timeout that is not None:
\* QrexecProxyPlugin_timeout.__init__ turns a negative number of seconds into None.
HasDeadline(c) ==
    /\ c[1] \in Filters
    /\ plugins[c[1]].name = "timeout"
    /\ timeout_of(plugins[c[1]], c[2]) >= 0

\* asyncio.wait_for(): the timeout passes before the copy is done, the copy is
\* cancelled and wait_for() waits for it to end.  Nothing happens when
\* wait_for() was cancelled itself before.
TimerExpire(c) ==
    /\ HasDeadline(c)
    /\ Live(c)
    /\ ~co[c].timed_out
    /\ ~co[c].cancel
    /\ co[c].exc # "CancelledError"
    /\ co' = [co EXCEPT ![c].timed_out = TRUE, ![c].cancel = TRUE]
    /\ UNCHANGED <<countVars, conf, plugins, budget, startup, io, gexc, task, sub, mainPc, mainOutcome, mainErr,
                   failSeq, cancelCalled, runPc, exitCode>>

\* ------------------------------------------------------------------- tasks
\* task[s].status     : "new", "running", "returned", "failed", "cancelled"
\* task[s].exc        : the exception the task ended with
\* task[s].must_cancel: Task._must_cancel, CancelledError is thrown in at its resume

\* asyncio.gather()'s future is done: a child ended with an exception, or all returned.
OuterDone(s) == gexc[s] # NONE \/ \A d \in Dirs : co[<<s, d>>].pc = "done"

\* The task of stage s is inside check_count(): its copies are not started.
InCheck(s) ==
    /\ s \in Filters
    /\ awaits_check(plugins[s])
    /\ task[s].status = "running"
    /\ \A d \in Dirs : co[<<s, d>>].pc = "new"

\* What `await asyncio.gather(...)` raises in the task when it resumes.
await_exc(s) == IF task[s].must_cancel THEN "CancelledError" ELSE gexc[s]

\* `for pipe in pipes: pipe.close()`, and the closes of the other finally
\* blocks: a close() that raises ends the sequence.
RECURSIVE close_each(_, _)
close_each(f, ends) ==
    IF ends = <<>> THEN [io |-> f, err |-> NONE]
    ELSE LET e == Head(ends)
             r == IF e[2] = "r" THEN reader_close(f, e[1]) ELSE writer_close(f, e[1])
         IN  IF r.err # NONE THEN r ELSE close_each(r.io, Tail(ends))

\* communicate_source's finally: r_pipe, w_pipe, stdin, stdout.
source_ends == << <<R(0), "r">>, <<F(0), "w">>, <<STDIN, "r">>, <<STDOUT, "w">> >>

\* proxy_wrapper(obj, src_r, dst_w, r1, w2) for the filter at stage i.
wrapper_ends(i) == << <<F(i - 1), "r">>, <<R(i - 1), "w">>, <<R(i), "r">>, <<F(i), "w">> >>

\* A finally block that leaves w_pipe open.
destination_ends_r_pipe_only == << <<F(N), "r">> >>

\* communicate_destination's finally: r_pipe, w_pipe.
destination_ends == << <<F(N), "r">>, <<R(N), "w">> >>

\* The task of stage s ends with exception e (NONE: it returns).
TaskEnd(s, e) ==
    /\ task' = [task EXCEPT ![s] = [status |-> CASE e = NONE -> "returned"
                                                 [] e = "CancelledError" -> "cancelled"
                                                 [] OTHER -> "failed",
                                    exc |-> e, must_cancel |-> FALSE]]
    /\ failSeq' = IF e \notin {NONE, "CancelledError"} THEN Append(failSeq, s) ELSE failSeq

\* communicate_source, lines 84-92: gather() is over, the finally block runs.
SourceFinish ==
    /\ task[SRC].status = "running"
    /\ OuterDone(SRC)
    /\ LET r == close_each(io, source_ends) IN
       /\ io' = r.io
       /\ TaskEnd(SRC, IF r.err # NONE THEN r.err ELSE await_exc(SRC))
    /\ UNCHANGED <<countVars, conf, plugins, budget, startup, co, gexc, sub, mainPc, mainOutcome, mainErr,
                   cancelCalled, runPc, exitCode>>

\* proxy_wrapper, lines 119-124: proxy() is over, the finally block runs.
WrapperFinish(i) ==
    /\ task[i].status = "running"
    /\ OuterDone(i) \/ (InCheck(i) /\ task[i].must_cancel)
    /\ LET r == close_each(io, wrapper_ends(i)) IN
       /\ io' = r.io
       /\ TaskEnd(i, IF r.err # NONE THEN r.err ELSE await_exc(i))
    /\ UNCHANGED <<countVars, conf, plugins, budget, startup, co, gexc, sub, mainPc, mainOutcome, mainErr,
                   cancelCalled, runPc, exitCode>>

\* communicate_destination, line 65: the subprocess inherits r_pipe as its
\* stdin and w_pipe as its stdout.
DestinationSpawn ==
    /\ task[DST].status = "running"
    /\ ~task[DST].must_cancel
    /\ sub.state = "unspawned"
    /\ sub' = [sub EXCEPT !.state = "running", !.stderr = "stderr"]
    /\ io' = [io EXCEPT !.ropen[F(N)] = @ \cup {"peer"}, !.wopen[R(N)] = @ \cup {"peer"}]
    /\ UNCHANGED <<countVars, conf, plugins, budget, startup, co, gexc, task, mainPc, mainOutcome, mainErr,
                   failSeq, cancelCalled, runPc, exitCode>>

\* A destination task that does not look at the exit status.
DestinationFinish_unchecked ==
    /\ task[DST].status = "running"
    /\ sub.state = "exited" \/ task[DST].must_cancel
    /\ LET r == close_each(io, destination_ends) IN
       /\ io' = r.io
       /\ TaskEnd(DST, CASE r.err # NONE -> r.err
                         [] task[DST].must_cancel -> "CancelledError"
                         [] OTHER -> NONE)
    /\ UNCHANGED <<countVars, conf, plugins, budget, startup, co, gexc, sub, mainPc, mainOutcome, mainErr,
                   cancelCalled, runPc, exitCode>>

\* communicate_destination, lines 66-72: proc.wait() is over or cancelled.
DestinationFinish ==
    /\ task[DST].status = "running"
    /\ sub.state = "exited" \/ task[DST].must_cancel
    /\ LET r == close_each(io, destination_ends) IN
       /\ io' = r.io
       /\ TaskEnd(DST, CASE r.err # NONE -> r.err
                         [] task[DST].must_cancel -> "CancelledError"
                         [] sub.ret # 0 -> "RuntimeError"
                         [] OTHER -> NONE)
    /\ UNCHANGED <<countVars, conf, plugins, budget, startup, co, gexc, sub, mainPc, mainOutcome, mainErr,
                   cancelCalled, runPc, exitCode>>

\* ------------------------------------------------------------- environment
Alive == mainPc # "start" /\ runPc # "exited"

\* The source VM writes its next byte to the proxy's stdin.
VmWrite ==
    /\ Alive
    /\ "peer" \in io.wopen[STDIN]
    /\ io.ropen[STDIN] # {}
    /\ Len(io.hist[STDIN]) < budget.nin
    /\ Free(io, STDIN) > 0
    /\ io' = [io EXCEPT !.hist[STDIN] = Append(@, Len(@) + 1)]
    /\ UNCHANGED <<countVars, conf, plugins, budget, startup, co, gexc, task, sub, mainPc, mainOutcome,
                   mainErr, failSeq, cancelCalled, runPc, exitCode>>

\* The source VM closes its end of the proxy's stdin: EOF.
VmCloseStdin ==
    /\ Alive
    /\ "peer" \in io.wopen[STDIN]
    /\ io' = [io EXCEPT !.wopen[STDIN] = @ \ {"peer"}]
    /\ UNCHANGED <<countVars, conf, plugins, budget, startup, co, gexc, task, sub, mainPc, mainOutcome,
                   mainErr, failSeq, cancelCalled, runPc, exitCode>>

\* The source VM reads what the proxy's stdout holds.
VmRead ==
    /\ Alive
    /\ "peer" \in io.ropen[STDOUT]
    /\ Content(io, STDOUT) # <<>>
    /\ io' = [io EXCEPT !.rpos[STDOUT] = Len(io.hist[STDOUT])]
    /\ UNCHANGED <<countVars, conf, plugins, budget, startup, co, gexc, task, sub, mainPc, mainOutcome,
                   mainErr, failSeq, cancelCalled, runPc, exitCode>>

\* The source VM stops listening: writes to stdout meet a broken pipe.
VmCloseStdout ==
    /\ Alive
    /\ "peer" \in io.ropen[STDOUT]
    /\ io' = [io EXCEPT !.ropen[STDOUT] = @ \ {"peer"}]
    /\ UNCHANGED <<countVars, conf, plugins, budget, startup, co, gexc, task, sub, mainPc, mainOutcome,
                   mainErr, failSeq, cancelCalled, runPc, exitCode>>

\* qrexec-client-vm reads what its stdin holds.
SubRead ==
    /\ Alive
    /\ sub.state = "running"
    /\ Content(io, F(N)) # <<>>
    /\ io' = [io EXCEPT !.rpos[F(N)] = Len(io.hist[F(N)])]
    /\ UNCHANGED <<countVars, conf, plugins, budget, startup, co, gexc, task, sub, mainPc, mainOutcome,
                   mainErr, failSeq, cancelCalled, runPc, exitCode>>

\* qrexec-client-vm writes the destination's next byte to its stdout.
SubWrite ==
    /\ Alive
    /\ sub.state = "running"
    /\ io.ropen[R(N)] # {}
    /\ Len(io.hist[R(N)]) < budget.nout
    /\ Free(io, R(N)) > 0
    /\ io' = [io EXCEPT !.hist[R(N)] = Append(@, 11 + Len(@))]
    /\ UNCHANGED <<countVars, conf, plugins, budget, startup, co, gexc, task, sub, mainPc, mainOutcome,
                   mainErr, failSeq, cancelCalled, runPc, exitCode>>

\* qrexec-client-vm exits with status ret; its descriptors close.
SubExit(ret) ==
    /\ Alive
    /\ sub.state = "running"
    /\ sub' = [sub EXCEPT !.state = "exited", !.ret = ret]
    /\ io' = [io EXCEPT !.ropen[F(N)] = @ \ {"peer"}, !.wopen[R(N)] = @ \ {"peer"}]
    /\ UNCHANGED <<countVars, conf, plugins, budget, startup, co, gexc, task, mainPc, mainOutcome, mainErr,
                   failSeq, cancelCalled, runPc, exitCode>>

\* ------------------------------------------------------------------- main()
\* open_pipe(), twice before the loop and twice per plugin.
open_pipes(f, ps) ==
    [f EXCEPT !.ropen = [p \in DOMAIN @ |-> IF p \in ps THEN {"obj"} ELSE @[p]],
              !.wopen = [p \in DOMAIN @ |-> IF p \in ps THEN {"obj"} ELSE @[p]]]

\* Where the copy of a stage starts once its task is scheduled.
first_op(c) ==
    IF c[1] \in Filters /\ awaits_check(plugins[c[1]]) THEN "new"
    ELSE IF IsStreamline(c[1]) THEN "read_full" ELSE "read"

\* main(), lines 130-219: everything up to asyncio.wait().  A constructor that
\* raises (line 204) ends main() after the pipes of lines 188-189 and of the
\* stages before it (lines 206-207) were opened; every other failure comes
\* before the first open_pipe().
MainStart ==
    /\ mainPc = "start"
    /\ IF startup # "ok"
       THEN /\ mainPc' = "ended"
            /\ mainOutcome' = "error"
            /\ io' = log(IF startup = "invalid_config"
                         THEN open_pipes(io, EnginePipes(N)) ELSE io)
            /\ UNCHANGED <<co, task>>
       ELSE /\ mainPc' = "waiting"
            /\ io' = log(open_pipes(io, EnginePipes(N)))
            /\ co' = [c \in Copiers |->
                        [co[c] EXCEPT !.pc = first_op(c),
                                      !.rsize = size_arg(c)]]
            /\ task' = [s \in Stages |-> [task[s] EXCEPT !.status = "running"]]
            /\ UNCHANGED mainOutcome
    /\ UNCHANGED <<countVars, conf, plugins, budget, startup, gexc, sub, mainErr, failSeq, cancelCalled,
                   runPc, exitCode>>

\* The tasks asyncio.wait() returns as pending.
Pending == {s \in Stages : task[s].status = "running"}
Failed == {s \in Stages : task[s].status = "failed"}

\* asyncio.wait(..., return_when=FIRST_EXCEPTION) returns.
wait_returns == Failed # {} \/ Pending = {}

\* A finally block that cancels nothing.
to_cancel_none(pending) == {}

\* The tasks main()'s finally block cancels.
to_cancel(pending) == pending

\* A main() that looks at no task's result.
main_outcome_blind(failed) == "alldone"

\* main() ends with an error when a task of `done` holds an exception.
main_outcome(failed) == IF failed # {} THEN "error" ELSE "alldone"

\* Task.cancel() on the tasks of S: a task awaiting a pending gather() has its
\* children cancelled, any other (a task that sleeps in wait_for_lock too) gets
\* CancelledError at its resume.
cancel_tasks(S) ==
    [s \in Stages |-> IF s \in S /\ (s = DST \/ OuterDone(s) \/ InCheck(s))
                      THEN [task[s] EXCEPT !.must_cancel = TRUE] ELSE task[s]]
cancel_children(S) ==
    [c \in Copiers |-> IF c[1] \in S /\ ~OuterDone(c[1]) /\ co[c].pc \notin {"new", "done"}
                       THEN [co[c] EXCEPT !.cancel = TRUE, !.timed_out = FALSE] ELSE co[c]]

\* main(), lines 220-229: asyncio.wait() returns, the first exception met in
\* the set `done` is raised, the pending tasks are cancelled; 'All done' or
\* 'Cleanup done.' is logged.
MainResume ==
    /\ mainPc = "waiting"
    /\ wait_returns
    /\ mainPc' = "ended"
    /\ mainOutcome' = main_outcome(Failed)
    /\ IF Failed # {} THEN \E t \in Failed : mainErr' = t ELSE UNCHANGED mainErr
    /\ cancelCalled' = to_cancel(Pending)
    /\ task' = cancel_tasks(to_cancel(Pending))
    /\ co' = cancel_children(to_cancel(Pending))
    /\ io' = log(io)
    /\ UNCHANGED <<countVars, conf, plugins, budget, startup, gexc, sub, failSeq, runPc, exitCode>>

\* ------------------------------------------------------------ asyncio.run()
\* asyncio.run()'s _cancel_all_tasks(): every task that is not done, the
\* children gather() made included, is cancelled.
RunCancelAll ==
    /\ runPc = "main"
    /\ mainPc = "ended"
    /\ runPc' = "cancelling"
    /\ task' = cancel_tasks(Pending)
    /\ co' = [c \in Copiers |-> IF co[c].pc \notin {"new", "done"}
                                THEN [co[c] EXCEPT !.cancel = TRUE, !.timed_out = FALSE]
                                ELSE co[c]]
    /\ UNCHANGED <<countVars, conf, plugins, budget, startup, io, gexc, sub, mainPc, mainOutcome, mainErr,
                   failSeq, cancelCalled, exitCode>>

\* The exit status: 0 when main() returned, 1 when it raised or called sys.exit(1).
exit_code(outcome) == IF outcome = "alldone" THEN 0 ELSE 1

\* The cancelled tasks have ended: asyncio.run() returns or raises, the process
\* exits; sys.excepthook (handle_exception) logs the exception main() raised.
RunEnd ==
    /\ runPc = "cancelling"
    /\ Pending = {}
    /\ \A c \in Copiers : co[c].pc \in {"new", "done"}
    /\ runPc' = "exited"
    /\ exitCode' = exit_code(mainOutcome)
    /\ io' = IF mainOutcome = "error" /\ startup = "ok" THEN log(io) ELSE io
    /\ UNCHANGED <<countVars, conf, plugins, budget, startup, co, gexc, task, sub, mainPc, mainOutcome,
                   mainErr, failSeq, cancelCalled>>

\* ------------------------------------------- count: the admission check
\* A count stage with its limit and its limit_interval; the interval is
\* written in ticks (limit_interval seconds = limit_interval / TicksPerSec).
CountPlugin(limit, limit_interval) ==
    [name |-> "count", limit |-> limit, limit_interval |-> limit_interval]

\* The exception update_counters raises to refuse a session.
AbortException == "AbortException"

\* The counter file is text: a sequence of character codes, the digits 0..9
\* and the newline.
NL == 10

\* str(n) of a natural number.
RECURSIVE str(_)
str(n) == IF n < 10 THEN <<n>> ELSE str(n \div 10) \o <<n % 10>>

\* int(line) of a line of digits (the lines of the file are never empty).
RECURSIVE int(_)
int(line) == IF line = <<>> THEN 0 ELSE 10 * int(Take(line, Len(line) - 1)) + line[Len(line)]

\* text.splitlines()
RECURSIVE splitlines(_)
splitlines(text) ==
    IF text = <<>> THEN <<>>
    ELSE LET k == CHOOSE k \in 1..(Len(text) + 1) :
                      /\ k = Len(text) + 1 \/ text[k] = NL
                      /\ \A j \in 1..(k - 1) : text[j] # NL
         IN  <<Take(text, k - 1)>> \o splitlines(Drop(text, k))

\* '\n'.join(out)
RECURSIVE join(_)
join(out) ==
    IF out = <<>> THEN <<>>
    ELSE IF Len(out) = 1 THEN out[1]
    ELSE out[1] \o <<NL>> \o join(Tail(out))

\* int(time.time()) at clock t: the whole seconds.
int_time(t) == t \div TicksPerSec

\* A character of the counter file that is no digit.
Junk == 11

\* int(line) raises ValueError.
malformed(line) == line = <<>> \/ \E k \in 1..Len(line) : line[k] \notin 0..9

\* update_counters on a file that holds `text`, at clock t: the entries
\* younger than limit_interval are kept, and the session's own is added unless
\* the limit is reached.  out is what fd.write() is given.  A line that is no
\* number raises ValueError in the loop, before the file is touched.
update_counters(text, t, pl) ==
    LET now == int_time(t)
        Young(line) == (now - int(line)) * TicksPerSec < pl.limit_interval
        kept == SelectSeq(splitlines(text), Young)
        out == [k \in 1..Len(kept) |-> str(int(kept[k]))]
    IN  IF \E k \in 1..Len(splitlines(text)) : malformed(splitlines(text)[k])
        THEN [out |-> text, err |-> "ValueError"]
        ELSE IF Len(kept) >= pl.limit
        THEN [out |-> join(out), err |-> AbortException]
        ELSE [out |-> join(Append(out, str(now))), err |-> NONE]

\* The sessions of the chain, one process each.
\* sess[p].pc      : "wait_for_lock", "read", "truncate", "rmdir", "close", "done"
\* sess[p].pending : what fd.write() was given and the file object still buffers
\* sess[p].err     : the exception update_counters raised
Procs == 1..MaxSessions

\* SysLock.wait_for_lock, line 45: os.mkdir() succeeds (while the directory
\* exists it raises FileExistsError and the session sleeps 0.2 s).
SessMkdir(p) ==
    /\ sess[p].pc = "wait_for_lock"
    /\ ~lock_path
    /\ lock_path' = TRUE
    /\ sess' = [sess EXCEPT ![p].pc = "read"]
    /\ raced' = (raced \/ \E q \in Procs : sess[q].pc = "close")
    /\ UNCHANGED <<pipelineVars, clock, count_file, checks, can_open>>

\* SysLock.__aenter__ line 53 and update_counters lines 99-112: the file is
\* opened and read, the verdict is reached.
SessRead(p) ==
    /\ sess[p].pc = "read"
    /\ can_open
    /\ LET r == update_counters(count_file, clock, plugins[1]) IN
       /\ sess' = [sess EXCEPT ![p] = IF r.err = "ValueError"
                                      THEN [pc |-> "rmdir", pending |-> <<>>, err |-> r.err]
                                      ELSE [pc |-> "truncate", pending |-> r.out, err |-> r.err]]
       /\ checks' = Append(checks, [at |-> clock, err |-> r.err])
    /\ UNCHANGED <<pipelineVars, clock, lock_path, count_file, raced, can_open>>

\* SysLock.__aenter__, line 53: open() raises (the path is a directory, or
\* may not be written); __aexit__ is not run for an __aenter__ that raised.
SessOpenFails(p) ==
    /\ sess[p].pc = "read"
    /\ ~can_open
    /\ sess' = [sess EXCEPT ![p] = [pc |-> "done", pending |-> <<>>, err |-> "OSError"]]
    /\ UNCHANGED <<pipelineVars, clock, lock_path, count_file, checks, raced, can_open>>

\* update_counters lines 114-116: fd.truncate() empties the file; what
\* fd.write() is given stays in the file object's buffer.
SessTruncate(p) ==
    /\ sess[p].pc = "truncate"
    /\ count_file' = <<>>
    /\ sess' = [sess EXCEPT ![p].pc = "rmdir"]
    /\ UNCHANGED <<pipelineVars, clock, lock_path, checks, raced, can_open>>

\* SysLock.__aexit__, line 57: os.rmdir() releases the lock.
SessRmdir(p) ==
    /\ sess[p].pc = "rmdir"
    /\ lock_path' = FALSE
    /\ sess' = [sess EXCEPT ![p].pc = "close"]
    /\ UNCHANGED <<pipelineVars, clock, count_file, checks, raced, can_open>>

\* SysLock.__aexit__, line 58: fd.close() writes the buffer out; the file was
\* opened with 'a+', the bytes go to its end.
SessClose(p) ==
    /\ sess[p].pc = "close"
    /\ count_file' = count_file \o sess[p].pending
    /\ sess' = [sess EXCEPT ![p].pc = "done", ![p].pending = <<>>]
    /\ UNCHANGED <<pipelineVars, clock, lock_path, checks, raced, can_open>>

\* Time passes.
Tick ==
    /\ clock < MaxClock
    /\ clock' = clock + 1
    /\ UNCHANGED <<pipelineVars, lock_path, count_file, sess, checks, raced, can_open>>

\* count.proxy(), lines 129-132, in the session whose pipeline is run: the
\* lock directory is gone, check_count() runs through without a pause.  When
\* update_counters lets the session in the two copies are started; when it
\* raises, proxy() is left and proxy_wrapper's finally block closes the pipes.
CheckCount(i) ==
    /\ InCheck(i)
    /\ ~task[i].must_cancel
    /\ ~lock_path
    /\ LET r == update_counters(count_file, clock, plugins[i]) IN
       /\ count_file' = r.out
       /\ checks' = Append(checks, [at |-> clock, err |-> r.err])
       /\ IF r.err = NONE
          THEN /\ co' = [c \in Copiers |-> IF c[1] = i THEN [co[c] EXCEPT !.pc = "read"]
                                           ELSE co[c]]
               /\ UNCHANGED <<io, task, failSeq>>
          ELSE /\ LET cl == close_each(io, wrapper_ends(i)) IN
                  /\ io' = cl.io
                  /\ TaskEnd(i, IF cl.err # NONE THEN cl.err ELSE r.err)
               /\ UNCHANGED co
    /\ UNCHANGED <<conf, plugins, budget, startup, gexc, sub, mainPc, mainOutcome, mainErr,
                   cancelCalled, runPc, exitCode, clock, lock_path, sess, raced, can_open>>

\* No session of the chain has run yet.
CountInit ==
    /\ clock = 0
    /\ lock_path = FALSE
    /\ count_file = <<>>
    /\ sess = [p \in Procs |-> [pc |-> "wait_for_lock", pending |-> <<>>, err |-> NONE]]
    /\ checks = <<>>
    /\ raced = FALSE
    /\ can_open = TRUE

\* ------------------------------------------ main(): building the pipeline
\* The sessions whose stages are given with their configuration do not look
\* at the file.
Unread == [type |-> "unread"]

\* json.load(): null, and an object with its members.
None == [type |-> "NoneType"]
Dict(f) == [type |-> "dict", items |-> f]

\* dict()
EmptyDict == Dict([k \in {} |-> 0])

\* `if pconf:`, `if not self.config:` -- None and the empty dict are false.
truthy(v) == v.type = "dict" /\ DOMAIN v.items # {}

\* d.get(key)
get(d, key) == IF key \in DOMAIN d.items THEN d.items[key] ELSE None

\* str(i) of a position in the chain, as a key of a JSON object.
Digits == <<"0", "1", "2">>
str_key(i) == Digits[i + 1]

\* The chain's config looked up by the stage's name before its position.
resolve_config_name_first(chain_config, i, plugin) ==
    IF ~truthy(chain_config) THEN chain_config
    ELSE IF plugin \in DOMAIN chain_config.items THEN chain_config.items[plugin]
    ELSE get(chain_config, str_key(i))

\* main(), lines 196-202: pconf[str(i)], on KeyError pconf.get(plugin).
resolve_config(chain_config, i, plugin) ==
    IF ~truthy(chain_config) THEN chain_config
    ELSE IF str_key(i) \in DOMAIN chain_config.items THEN chain_config.items[str_key(i)]
    ELSE get(chain_config, plugin)

\* QrexecProxyPlugin.__init__: self.config.
plugin_config(config) == IF ~truthy(config) THEN EmptyDict ELSE config

\* A byte_limit that takes a missing limit as -1.
byte_limit_init_lenient(config) ==
    LET c == plugin_config(config)
        lim(key) == IF key \in DOMAIN c.items THEN c.items[key] ELSE -1
    IN  [err |-> NONE, config |-> c,
         obj |-> Plugin("byte_limit", lim("src2dst_limit"), lim("dst2src_limit"))]

\* QrexecProxyPlugin_byte_limit.__init__: a KeyError becomes a RuntimeError.
byte_limit_init(config) ==
    LET c == plugin_config(config) IN
    IF {"src2dst_limit", "dst2src_limit"} \subseteq DOMAIN c.items
    THEN [err |-> NONE, config |-> c,
          obj |-> Plugin("byte_limit", c.items["src2dst_limit"], c.items["dst2src_limit"])]
    ELSE [err |-> "RuntimeError", config |-> c, obj |-> NONE]

\* cls(get_logger(lname), meta, config=pconf); pass has the base constructor.
construct(plugin, pconf) ==
    IF plugin = "byte_limit" THEN byte_limit_init(pconf)
    ELSE [err |-> NONE, config |-> plugin_config(pconf), obj |-> Plugin(plugin, -1, -1)]

\* The files of the plugin directory, and those with a class
\* QrexecProxyPlugin_<name> that inherits from QrexecProxyPlugin.
PluginFiles ==
    {"__init__", "byte_limit", "count", "default", "pass", "sniff", "stop_dst",
     "streamline", "timeout"}
PluginClasses == PluginFiles \ {"__init__", "default"}

\* main(), lines 160-184: the first plugin of the list that fails to load.
RECURSIVE load_plugins(_, _)
load_plugins(ps, k) ==
    IF k > Len(ps) THEN "ok"
    ELSE IF ps[k] \notin PluginFiles THEN "no_plugin_file"
    ELSE IF ps[k] \notin PluginClasses THEN "no_class"
    ELSE load_plugins(ps, k + 1)

\* open_pipe() when n pipes exist: pipe n + 1, with its read and write end.
open_pipe(n) == [r |-> <<n + 1, "r">>, w |-> <<n + 1, "w">>]

\* A loop body that hands the stage's own two pipes on the wrong way round.
connect_plugin_swapped(c, b) ==
    LET i == Len(b.objs)
        plugin == c.plugins[i + 1]
        o == construct(plugin, resolve_config(c.config, i, plugin))
        p1 == open_pipe(b.npipes)
        p2 == open_pipe(b.npipes + 1)
    IN  IF o.err # NONE THEN [b EXCEPT !.startup = "invalid_config"]
        ELSE [b EXCEPT !.npipes = @ + 2,
                       !.objs = Append(@, o.obj),
                       !.configs = Append(@, o.config),
                       !.awaitables = Append(@, <<b.src_r, b.dst_w, p1.r, p2.w>>),
                       !.src_r = p1.r,
                       !.dst_w = p2.w]

\* main(), lines 193-211: the body of the loop over the plugins.  The
\* awaitable is proxy_wrapper(obj, src_r, dst_w, r1, w2).
connect_plugin(c, b) ==
    LET i == Len(b.objs)
        plugin == c.plugins[i + 1]
        o == construct(plugin, resolve_config(c.config, i, plugin))
        p1 == open_pipe(b.npipes)
        p2 == open_pipe(b.npipes + 1)
    IN  IF o.err # NONE THEN [b EXCEPT !.startup = "invalid_config"]
        ELSE [b EXCEPT !.npipes = @ + 2,
                       !.objs = Append(@, o.obj),
                       !.configs = Append(@, o.config),
                       !.awaitables = Append(@, <<b.src_r, b.dst_w, p1.r, p2.w>>),
                       !.src_r = p2.r,
                       !.dst_w = p1.w]

RECURSIVE connect_plugins(_, _)
connect_plugins(c, b) ==
    IF b.startup # "ok" \/ Len(b.objs) = Len(c.plugins) THEN b
    ELSE connect_plugins(c, connect_plugin(c, b))

\* main(), lines 151-214: from the configuration to the awaitables.  Each
\* awaitable is the tuple of pipe ends it is called with.
main_build(c) ==
    LET failed(why) == [startup |-> why, npipes |-> 0, objs |-> <<>>, configs |-> <<>>,
                        awaitables |-> <<>>, src_r |-> NONE, dst_w |-> NONE]
    IN  IF c = None THEN failed("no_chain")
        ELSE IF load_plugins(c.plugins, 1) # "ok" THEN failed(load_plugins(c.plugins, 1))
        ELSE LET src == open_pipe(0)
                 dst == open_pipe(1)
                 b == connect_plugins(c, [startup |-> "ok", npipes |-> 2, objs |-> <<>>,
                                          configs |-> <<>>,
                                          awaitables |-> << <<dst.r, src.w>> >>,
                                          src_r |-> src.r, dst_w |-> dst.w])
             IN  IF b.startup # "ok" THEN b
                 ELSE [b EXCEPT !.awaitables = Append(@, <<b.src_r, b.dst_w>>)]

\* The name the pipeline gives the n-th pipe main() opens: the first two are
\* F(0) and R(0), the stage at position k opens R(k + 1) and then F(k + 1).
pipe_name(n) ==
    IF n = 1 THEN F(0) ELSE IF n = 2 THEN R(0)
    ELSE IF n % 2 = 1 THEN R((n - 1) \div 2) ELSE F((n - 2) \div 2)

\* ------------------------------------------------------------ specification
\* The state in which session se is started.
InitSession(se) ==
    /\ plugins = se.plugins
    /\ budget = [nin |-> se.nin, nout |-> se.nout]
    /\ io = [hist |-> [p \in PipeIds(N) |-> <<>>],
             rpos |-> [p \in PipeIds(N) |-> 0],
             wbuf |-> [p \in PipeIds(N) |-> <<>>],
             ropen |-> [p \in PipeIds(N) |->
                          CASE p = STDIN -> {"obj"} [] p = STDOUT -> {"peer"} [] OTHER -> {}],
             wopen |-> [p \in PipeIds(N) |->
                          CASE p = STDIN -> {"peer"} [] p = STDOUT -> {"obj"} [] OTHER -> {}],
             nclose |-> [e \in PipeIds(N) \X {"r", "w"} |-> 0],
             journal |-> 0,
             sniffed |-> <<>>,
             blocks |-> [p \in PipeIds(N) |-> <<>>]]
    /\ co = [c \in Copiers |-> [pc |-> "new", buf |-> <<>>, rsize |-> -1, chunks |-> <<>>, exc |-> NONE,
                                cancel |-> FALSE, timed_out |-> FALSE]]
    /\ gexc = [s \in 0..N |-> NONE]
    /\ task = [s \in Stages |-> [status |-> "new", exc |-> NONE, must_cancel |-> FALSE]]
    /\ sub = [state |-> "unspawned", ret |-> 0, stderr |-> NONE]
    /\ mainPc = "start"
    /\ mainOutcome = NONE
    /\ mainErr = -1
    /\ failSeq = <<>>
    /\ cancelCalled = {}
    /\ runPc = "main"
    /\ exitCode = -1

Init ==
    /\ startup \in StartupCases
    /\ \E se \in Sessions :
          /\ startup # "ok" => se.plugins = <<>>
          /\ InitSession(se)
    /\ conf = Unread
    /\ CountInit

Next ==
    \/ MainStart
    \/ \E c \in Copiers : CoStep(c)
    \/ \E c \in Copiers : CoCancelled(c)
    \/ SourceFinish
    \/ \E i \in Filters : WrapperFinish(i)
    \/ DestinationSpawn
    \/ DestinationFinish
    \/ VmWrite
    \/ VmCloseStdin
    \/ VmRead
    \/ VmCloseStdout
    \/ SubRead
    \/ SubWrite
    \/ \E ret \in {0, 1} : SubExit(ret)
    \/ MainResume
    \/ RunCancelAll
    \/ RunEnd

Spec == Init /\ [][Next]_vars

\* ------------------------------------------- chains with a timeout stage
TimeoutInit ==
    /\ startup = "ok"
    /\ \E se \in TimeoutSessions : InitSession(se)
    /\ conf = Unread
    /\ CountInit

TimeoutNext ==
    \/ Next
    \/ \E c \in Copiers : TimerExpire(c)

TimeoutSpec == TimeoutInit /\ [][TimeoutNext]_vars

\* ------------------------------- chains with a sniff or a streamline stage
FilterSessions ==
    { Session(<<SniffPlugin("base64")>>, MaxIn - 2, MaxOut - 1),
      Session(<<SniffPlugin("hex")>>, MaxIn - 3, MaxOut - 1),
      Session(<<StreamlinePlugin(BufSize)>>, MaxIn - 1, MaxOut - 1) }

FilterInit ==
    /\ startup = "ok"
    /\ \E se \in FilterSessions : InitSession(se)
    /\ conf = Unread
    /\ CountInit

FilterSpec == FilterInit /\ [][Next]_vars

\* ------------------- chains whose filter can fail while the reply goes on
\* The destination replies with MaxOut bytes, so that one of them can wait in
\* the buffer of src_w while the next reaches dst_r.
OrphanSessions ==
    { Session(<<TimeoutPlugin(1, -1)>>, MaxIn - 3, MaxOut),
      Session(<<Plugin("pass", -1, -1)>>, MaxIn - 2, MaxOut) }

OrphanInit ==
    /\ startup = "ok"
    /\ \E se \in OrphanSessions : InitSession(se)
    /\ conf = Unread
    /\ CountInit

OrphanSpec == OrphanInit /\ [][TimeoutNext]_vars

\* --------------------------------- the sessions that share a counter file
\* The count stages whose admission checks are run: limit 1 or 2 within a
\* second or a second and a half.
CountPlugins == {CountPlugin(k, t) : k \in 1..2, t \in {TicksPerSec, TicksPerSec + 1}}

\* The pipelines of the sessions are left out: they have not been started.
CountSessionsInit ==
    /\ startup = "ok"
    /\ \E pl \in CountPlugins : InitSession(Session(<<pl>>, 0, 0))
    /\ conf = Unread
    /\ CountInit

CountSessionsNext ==
    \/ \E p \in Procs : SessMkdir(p)
    \/ \E p \in Procs : SessRead(p)
    \/ \E p \in Procs : SessTruncate(p)
    \/ \E p \in Procs : SessRmdir(p)
    \/ \E p \in Procs : SessClose(p)
    \/ Tick

CountSpec == CountSessionsInit /\ [][CountSessionsNext]_vars

\* ------------------------------ sessions that meet a damaged counter file
\* The counter files the sessions find: none yet, the entry of a session
\* admitted at time 0, and a line that is no number.
CounterFiles == { <<>>, str(0), <<Junk>> }

\* The sessions of a chain [count] with limit 1 in a second; the counter file
\* is one of CounterFiles and it can be opened or not.
CountFaultInit ==
    /\ startup = "ok"
    /\ InitSession(Session(<<CountPlugin(1, TicksPerSec)>>, 0, 0))
    /\ conf = Unread
    /\ clock = 0
    /\ lock_path = FALSE
    /\ count_file \in CounterFiles
    /\ sess = [p \in Procs |-> [pc |-> "wait_for_lock", pending |-> <<>>, err |-> NONE]]
    /\ checks = <<>>
    /\ raced = FALSE
    /\ can_open \in BOOLEAN

CountFaultNext ==
    \/ CountSessionsNext
    \/ \E p \in Procs : SessOpenFails(p)

CountFaultSpec == CountFaultInit /\ [][CountFaultNext]_vars

\* ------------------------------------------- chains with a count stage
CountChainSessions ==
    { Session(<<CountPlugin(1, TicksPerSec)>>, MaxIn - 3, MaxOut - 1) }

\* Another session of the chain is about to leave check_count(): it has
\* truncated the counter file and still holds the lock and its entry.
CountChainInit ==
    /\ startup = "ok"
    /\ \E se \in CountChainSessions : InitSession(se)
    /\ conf = Unread
    /\ clock = 0
    /\ lock_path = TRUE
    /\ count_file = <<>>
    /\ sess = [p \in Procs |-> IF p = 1 THEN [pc |-> "rmdir", pending |-> str(0), err |-> NONE]
                                ELSE [pc |-> "done", pending |-> <<>>, err |-> NONE]]
    /\ checks = <<>>
    /\ raced = FALSE
    /\ can_open = TRUE

CountChainNext ==
    \/ Next
    \/ \E i \in Filters : CheckCount(i)
    \/ \E p \in Procs : SessRmdir(p)
    \/ \E p \in Procs : SessClose(p)

CountChainSpec == CountChainInit /\ [][CountChainNext]_vars

\* ------------------------------------- the sessions built from a config file
\* The names a chain lists: two filters, a file of the plugin directory
\* without a filter class, and a name without a file.
ChainNames == {"pass", "byte_limit", "default", "nofile"}

\* The entries of a chain's config: a configuration of byte_limit, and {}.
ConfigEntries == { Dict([src2dst_limit |-> 1, dst2src_limit |-> -1]), EmptyDict }

\* The keys of a chain's config: positions and names.
ConfigKeys == {"0", "1", "byte_limit"}

MaxChain == 2
MaxKeys == 2

\* A chain's config: absent, or an object with at most MaxKeys members.
ChainConfigs ==
    {None} \cup UNION { {Dict(f) : f \in [D -> ConfigEntries]} :
                           D \in {S \in SUBSET ConfigKeys : Cardinality(S) <= MaxKeys} }

\* The lists of plugins: every list of less than MaxChain names, and the
\* longer ones without pass (it is built whatever the config holds).
Chains ==
    UNION { [1..n -> ChainNames] : n \in 0..(MaxChain - 1) }
      \cup [1..MaxChain -> ChainNames \ {"pass"}]

\* conf.get(chain): absent, or a list of plugins and a config.
Confs == {None} \cup { [plugins |-> ps, config |-> cc] : ps \in Chains, cc \in ChainConfigs }

\* The bytes the peers have to send in the session of configuration c: one
\* each way through the empty chain without a config, none in the others.
BuildBudget(c) == IF c # None /\ c.plugins = <<>> /\ c.config = None THEN 1 ELSE 0

\* main() is about to load one of the configurations.
BuildInit ==
    /\ conf \in Confs
    /\ LET b == main_build(conf) IN
          /\ startup = b.startup
          /\ InitSession(Session(b.objs, BuildBudget(conf), BuildBudget(conf)))
    /\ CountInit

BuildSpec == BuildInit /\ [][Next]_vars

\* ----------------------------------- sessions with a well-behaved destination
\* Chains of pass and byte_limit stages.
CleanSessions ==
    { Session(<<>>, MaxIn - 3, MaxOut - 1),
      Session(<<Plugin("pass", -1, -1)>>, MaxIn - 4, MaxOut + 1),
      Session(<<Plugin("byte_limit", 0, -1)>>, MaxIn - 3, MaxOut - 2) }

CleanInit ==
    /\ startup = "ok"
    /\ \E se \in CleanSessions : InitSession(se)
    /\ conf = Unread
    /\ CountInit

\* qrexec-client-vm has read its input to EOF: it exits with status 0.
SubExitClean ==
    /\ Content(io, F(N)) = <<>>
    /\ io.wopen[F(N)] = {}
    /\ SubExit(0)

\* What the event loop can run: a coroutine or a task that can go on.
LoopStep ==
    \/ MainStart
    \/ \E c \in Copiers : CoStep(c)
    \/ \E c \in Copiers : CoCancelled(c)
    \/ SourceFinish
    \/ \E i \in Filters : WrapperFinish(i)
    \/ DestinationSpawn
    \/ DestinationFinish
    \/ MainResume
    \/ RunCancelAll
    \/ RunEnd

\* The source VM closes its input and reads what it is sent as long as it
\* listens; the destination reads its input and exits at EOF.
PeerStep ==
    \/ VmCloseStdin
    \/ VmRead
    \/ SubRead
    \/ SubExitClean

\* The session with a destination that reads to EOF and exits with 0; the
\* source VM may send and may stop listening, the destination may reply.
CleanNext ==
    \/ LoopStep
    \/ PeerStep
    \/ VmWrite
    \/ VmCloseStdout
    \/ SubWrite

\* A step of a copy coroutine changes the state: it is not a retry that finds
\* the pipe as full or as empty as before.
CoCanGoOn(c) ==
    /\ Live(c)
    /\ LET st0 == [io |-> io, l |-> co[c], halt |-> "go"]
           st == run_to_await(c, IF co[c].cancel THEN co_cancelled(c, st0) ELSE st0)
       IN  st.halt = "done" \/ st.io # io \/ st.l # co[c]

\* A step of LoopStep or of PeerStep is possible and changes the state.
CanGoOn ==
    \/ mainPc = "start"
    \/ \E c \in Copiers : CoCanGoOn(c)
    \/ \E s \in 0..N : task[s].status = "running" /\ OuterDone(s)
    \/ task[DST].status = "running" /\ ~task[DST].must_cancel /\ sub.state = "unspawned"
    \/ task[DST].status = "running" /\ (sub.state = "exited" \/ task[DST].must_cancel)
    \/ mainPc = "waiting" /\ wait_returns
    \/ runPc = "main" /\ mainPc = "ended"
    \/ runPc = "cancelling" /\ Pending = {} /\ \A c \in Copiers : co[c].pc \in {"new", "done"}
    \/ Alive /\ "peer" \in io.wopen[STDIN]
    \/ Alive /\ "peer" \in io.ropen[STDOUT] /\ Content(io, STDOUT) # <<>>
    \/ Alive /\ sub.state = "running" /\ Content(io, F(N)) # <<>>
    \/ Alive /\ sub.state = "running" /\ io.wopen[F(N)] = {}

\* The event loop runs the callbacks that are ready and the peers go on: the
\* session does not stand still for ever while the loop or a peer has a step
\* to take that changes the state.
Fairness == []<>(~CanGoOn) \/ []<><<CleanNext>>_vars

CleanSpec == CleanInit /\ [][CleanNext]_vars /\ Fairness

\* ------------------------------------------------------------------ properties
Ended(s) == task[s].status \in {"returned", "failed", "cancelled"}

\* The proxy's file object on end e = <<pipe, "r" or "w">> is closed.
EndClosed(e) == IF e[2] = "r" THEN "obj" \notin io.ropen[e[1]] ELSE "obj" \notin io.wopen[e[1]]

AllClosed(ends) == \A k \in 1..Len(ends) : EndClosed(ends[k])

\* The endpoints the task of stage s closes in its finally block.
task_ends(s) ==
    IF s = SRC THEN source_ends ELSE IF s = DST THEN destination_ends ELSE wrapper_ends(s)

\* C1: whenever the task of a filter stage has ended (returned, failed or
\* cancelled), the four endpoints handed to the stage are closed.
C1_EndedStageHasAllFourClosed ==
    \A i \in Filters : Ended(i) => AllClosed(wrapper_ends(i))

\* C2: when the session is over, each end of each pipe the engine opened has
\* been closed exactly once: none is still open, none was closed twice.
C2_EveryEndpointClosedOnce ==
    (runPc = "exited" /\ startup = "ok") =>
        \A p \in EnginePipes(N) : \A e \in {"r", "w"} :
            io.nclose[<<p, e>>] = 1 /\ EndClosed(<<p, e>>)

\* C3: once a task has failed main() no longer waits; when it has ended it has
\* ended with an error, never with 'All done', and no task is left running
\* without main() having cancelled it.
C3_FailureCancelsPendingAndFailsMain ==
    /\ (mainPc = "waiting" /\ failSeq # <<>>) => wait_returns
    /\ (mainPc = "ended" /\ failSeq # <<>>) => mainOutcome = "error"
    /\ mainOutcome = "alldone" => failSeq = <<>>
    /\ (mainPc = "ended" /\ startup = "ok") =>
          \A s \in Stages : Ended(s) \/ s \in cancelCalled

\* main() has ended with the error of a task and has cancelled tasks that were
\* still running.
C3_Witness ==
    /\ mainPc = "ended"
    /\ mainOutcome = "error"
    /\ failSeq # <<>>
    /\ cancelCalled # {}

\* C4: when main() ends with the error of a task, that task is the one that
\* failed first in time.
C4_MainRaisesFirstFailure ==
    (mainPc = "ended" /\ mainErr # -1) => mainErr = Head(failSeq)

\* C5: when main() has ended after a task failure, every task it cancelled has
\* finished and the endpoints of those tasks are closed.
C5_CancelledTasksDoneAtMainEnd ==
    (mainPc = "ended" /\ mainOutcome = "error") =>
        \A s \in cancelCalled : Ended(s) /\ AllClosed(task_ends(s))

\* C6: the process exits with status 0 exactly when the source task, every
\* filter task and the destination task returned normally; a failed start and
\* a failed task give a status other than 0.
C6_ExitZeroIffAllReturned ==
    runPc = "exited" =>
        /\ exitCode = 0 <=> \A s \in Stages : task[s].status = "returned"
        /\ startup # "ok" => exitCode # 0
        /\ failSeq # <<>> => exitCode # 0

\* A session through a filter that carried bytes both ways and exited with 0.
C6_Witness ==
    /\ runPc = "exited"
    /\ exitCode = 0
    /\ N >= 1
    /\ io.hist[F(N)] # <<>>
    /\ io.hist[STDOUT] # <<>>


AllPass == \A i \in Filters : plugins[i].name = "pass"

\* C8: in a chain of pass filters only (the empty chain included), a session
\* that ended with success delivered to the destination exactly the bytes of
\* the source's stdin and to the source's stdout exactly the bytes the
\* destination emitted.
C8_PassChainDeliversEverything ==
    (AllPass /\ runPc = "exited" /\ exitCode = 0) =>
        /\ io.hist[F(N)] = io.hist[STDIN]
        /\ io.hist[STDOUT] = io.hist[R(N)]

\* A successful session through one pass filter with all the bytes both peers
\* had to send.
C8_Witness ==
    /\ AllPass
    /\ N = 1
    /\ runPc = "exited"
    /\ exitCode = 0
    /\ Len(io.hist[STDIN]) = budget.nin
    /\ Len(io.hist[R(N)]) = budget.nout
    /\ budget.nin > 1
    /\ budget.nout > 0

\* The copies of limiting stages that have a limit L >= 0.
LimitedCopies == {c \in Copiers : IsLimit(c[1]) /\ size_arg(c) >= 0}

\* C9: a byte_limit copy with limit L >= 0 never writes more than the first L
\* bytes of its upstream downstream; when it has returned, upstream is at EOF
\* and read to its end, and downstream holds exactly the first min(L, N) of the
\* N upstream bytes.  Both directions.
C9_ByteLimitWritesFirstLAndDrainsRest ==
    \A c \in LimitedCopies :
        /\ IsPrefix(io.hist[Writer(c)] \o io.wbuf[Writer(c)],
                    Take(io.hist[Reader(c)], Min(size_arg(c), Len(io.hist[Reader(c)]))))
        /\ (co[c].pc = "done" /\ co[c].exc = NONE) =>
              /\ io.wopen[Reader(c)] = {}
              /\ io.rpos[Reader(c)] = Len(io.hist[Reader(c)])
              /\ io.hist[Writer(c)] =
                    Take(io.hist[Reader(c)], Min(size_arg(c), Len(io.hist[Reader(c)])))

\* A byte_limit copy with a limit of at least one byte has returned after
\* dropping bytes beyond the limit.
C9_Witness ==
    \E c \in LimitedCopies :
        /\ plugins[c[1]].name = "byte_limit"
        /\ size_arg(c) >= 1
        /\ co[c].pc = "done"
        /\ co[c].exc = NONE
        /\ Len(io.hist[Reader(c)]) > size_arg(c)
        /\ Len(io.hist[Writer(c)]) = size_arg(c)

StopDst == {i \in Filters : plugins[i].name = "stop_dst"}

\* C10: a stop_dst stage runs with the configuration of byte_limit(-1, 0)
\* whatever the user configured: nothing is ever written towards the source,
\* and the forward copy has no limit, so when it has returned everything the
\* stage received went on to the destination.
C10_StopDstIsByteLimitMinusOneZero ==
    \A i \in StopDst :
        /\ byte_limit_config(plugins[i]) = byte_limit_config(Plugin("byte_limit", -1, 0))
        /\ io.hist[R(i - 1)] = <<>> /\ io.wbuf[R(i - 1)] = <<>>
        /\ co[<<i, "fwd">>].rsize = -1
        /\ IsPrefix(io.hist[F(i)], io.hist[F(i - 1)])
        /\ (co[<<i, "fwd">>].pc = "done" /\ co[<<i, "fwd">>].exc = NONE) =>
              io.hist[F(i)] = io.hist[F(i - 1)]

\* A stop_dst stage the user configured the other way round (nothing forward,
\* everything back) has forwarded bytes and has read and dropped the
\* destination's.
C10_Witness ==
    \E i \in StopDst :
        /\ plugins[i].src2dst_limit = 0
        /\ plugins[i].dst2src_limit = -1
        /\ co[<<i, "fwd">>].pc = "done" /\ co[<<i, "fwd">>].exc = NONE
        /\ co[<<i, "rev">>].pc = "done" /\ co[<<i, "rev">>].exc = NONE
        /\ io.hist[F(i)] # <<>>
        /\ io.rpos[R(i)] > 0

\* Resuming the coroutine of copy c changes the state: it does not merely
\* meet the same BlockingIOError or the same empty pipe again and yield.
CoProgress(c) ==
    /\ Live(c)
    /\ LET st0 == [io |-> io, l |-> co[c], halt |-> "go"]
           st == run_to_await(c, IF co[c].cancel THEN co_cancelled(c, st0) ELSE st0)
       IN  st.halt = "done" \/ st.io # io \/ st.l # co[c]

\* The event loop has a step to take that changes the state: a coroutine or a
\* task can go on, or a timer is still to fire.
LoopCanProgress ==
    \/ mainPc = "start"
    \/ \E c \in Copiers : CoProgress(c)
    \/ \E c \in Copiers : ENABLED TimerExpire(c)
    \/ \E s \in 0..N : task[s].status = "running" /\ OuterDone(s)
    \/ task[DST].status = "running" /\ ~task[DST].must_cancel /\ sub.state = "unspawned"
    \/ task[DST].status = "running" /\ (sub.state = "exited" \/ task[DST].must_cancel)
    \/ mainPc = "waiting" /\ wait_returns
    \/ runPc = "main" /\ mainPc = "ended"
    \/ runPc = "cancelling" /\ Pending = {} /\ \A c \in Copiers : co[c].pc \in {"new", "done"}

\* The copiers whose wait_for() timeout has passed.
TimedOut(c) == c \in Copiers /\ co[c].timed_out

\* C11: once the timeout of a direction of a timeout stage has passed with that
\* direction's copy unfinished, the stage's task ends whatever the source VM
\* and the destination do: as long as the task has not ended, the event loop
\* has a step to take that changes the state, it waits for neither of them.
C11_TimedOutStageEndsUnaided ==
    \A c \in Copiers : TimedOut(c) /\ ~Ended(c[1]) => LoopCanProgress

\* The admission check j let the session in.
Admitted(j) == checks[j].err = NONE

\* The checks before check j that let a session in less than limit_interval
\* before it.
AdmittedInWindow(j) ==
    {i \in 1..(j - 1) : Admitted(i) /\ checks[j].at - checks[i].at < plugins[1].limit_interval}

\* C12: of the sessions of a chain whose admission checks fall within one
\* window of limit_interval seconds the first `limit` are let in and the next
\* is refused: a check lets the session in exactly when fewer than `limit`
\* sessions were let in during the limit_interval before it (sessions that run
\* their checks one after the other).
C12_LimitPerWindow ==
    ~raced =>
        \A j \in 1..Len(checks) :
            Admitted(j) <=> Cardinality(AdmittedInWindow(j)) < plugins[1].limit

\* The session holds the lock: os.mkdir() succeeded, os.rmdir() is to come.
Holding(p) == sess[p].pc \in {"read", "truncate", "rmdir"}

\* At most one session at a time is between acquiring and releasing the lock.
MutualExclusion == Cardinality({p \in Procs : Holding(p)}) <= 1

\* C13: access to the counter file is serialized by the lock directory: at most
\* one session holds the lock, and a session changes the counter file only
\* while it holds the lock.
C13_FileChangedOnlyUnderLock ==
    [][/\ MutualExclusion
       /\ count_file' # count_file =>
              \E p \in Procs : Holding(p) /\ sess'[p] # sess[p]]_vars

\* The count stages of the chain.
CountStages == {i \in Filters : plugins[i].name = "count"}

\* Stage i has taken a byte from one of its read ends or given one to one of
\* its write ends.
Forwarded(i) ==
    \E d \in Dirs :
        \/ io.rpos[Reader(<<i, d>>)] > 0
        \/ io.hist[Writer(<<i, d>>)] # <<>>
        \/ io.wbuf[Writer(<<i, d>>)] # <<>>

\* C14: a count stage forwards no byte in either direction before its
\* admission check has passed; when the check refuses the session the stage
\* has failed with AbortException without having forwarded a byte, and no
\* byte of the source has reached the destination through it.
C14_NoByteBeforeAdmission ==
    \A i \in CountStages :
        /\ Forwarded(i) => \E j \in 1..Len(checks) : checks[j].err = NONE
        /\ (\E j \in 1..Len(checks) : checks[j].err = AbortException) =>
               /\ ~Forwarded(i)
               /\ task[i].status = "failed" /\ task[i].exc = AbortException
               /\ io.hist[F(N)] = <<>>

\* A refused session: the source had sent the stage a byte and the
\* destination had sent it one too.
C14_Witness ==
    \E i \in CountStages :
        /\ task[i].exc = AbortException
        /\ io.hist[Reader(<<i, "fwd">>)] # <<>>
        /\ io.hist[Reader(<<i, "rev">>)] # <<>>

\* C15: every byte on the process's standard output is a payload byte the
\* source task copied from the return pipe, in the order it came; no log
\* record of the engine goes there, and the destination RPC client's error
\* text goes to the proxy's stderr, not into the pipeline.
C15_StdoutHoldsOnlyPayload ==
    /\ IsPrefix(io.hist[STDOUT], io.hist[R(0)])
    /\ \A k \in 1..Len(io.hist[STDOUT]) : io.hist[STDOUT][k] > 10
    /\ sub.state # "unspawned" => sub.stderr = "stderr"

\* The session has failed and has logged it, after reply bytes had gone to
\* the source VM.
C15_Witness ==
    /\ runPc = "exited"
    /\ exitCode = 1
    /\ io.journal >= 3
    /\ sub.state = "exited"
    /\ io.hist[STDOUT] # <<>>

\* The entry of the chain's config the stage at position i with name p is
\* to get: under str(i), else under p, else an empty mapping.
ConfigFor(c, i, p) ==
    IF c.config = None THEN EmptyDict
    ELSE IF str_key(i) \in DOMAIN c.config.items THEN c.config.items[str_key(i)]
    ELSE IF p \in DOMAIN c.config.items THEN c.config.items[p]
    ELSE EmptyDict

\* C16: the stage at position i with name p is constructed with the chain's
\* config entry under str(i) if that key is present, else with the entry under
\* p, else with an empty mapping; a byte_limit stage applies the limits of
\* that entry.
C16_ConfigByPositionThenName ==
    (conf # Unread /\ conf # None) =>
        LET b == main_build(conf) IN
        \A k \in 1..Len(b.configs) :
            /\ b.configs[k] = ConfigFor(conf, k - 1, conf.plugins[k])
            /\ (startup = "ok" /\ conf.plugins[k] = "byte_limit") =>
                 /\ limit_of(plugins[k], "fwd") = b.configs[k].items["src2dst_limit"]
                 /\ limit_of(plugins[k], "rev") = b.configs[k].items["dst2src_limit"]

\* A byte_limit stage runs with the entry of its position although the
\* config has an entry of its name as well.
C16_Witness ==
    /\ conf # Unread /\ conf # None
    /\ conf.plugins = <<"byte_limit">>
    /\ conf.config # None
    /\ DOMAIN conf.config.items = {"0", "byte_limit"}
    /\ conf.config.items["byte_limit"] = EmptyDict
    /\ task[1].status = "running"
    /\ limit_of(plugins[1], "fwd") = 1

\* The chain is missing, a listed plugin has no file or no class, or the
\* entry a byte_limit stage is to get lacks one of its limits.
BuildFails(c) ==
    \/ c = None
    \/ \E k \in 1..Len(c.plugins) :
         \/ c.plugins[k] \notin PluginClasses
         \/ /\ c.plugins[k] = "byte_limit"
            /\ ~({"src2dst_limit", "dst2src_limit"}
                    \subseteq DOMAIN ConfigFor(c, k - 1, c.plugins[k]).items)

\* C17: when the chain is missing from the configuration, a listed plugin
\* cannot be loaded or has no matching class, or a filter's constructor
\* rejects its configuration, no task is ever started, no byte is read from
\* stdin, the RPC client is not spawned, and the process exits with a status
\* other than 0.
C17_FailedBuildStartsNothing ==
    (conf # Unread /\ BuildFails(conf)) =>
        /\ \A s \in Stages : task[s].status = "new"
        /\ \A c \in Copiers : co[c].pc = "new"
        /\ io.rpos[STDIN] = 0
        /\ sub.state = "unspawned"
        /\ mainPc # "waiting"
        /\ runPc = "exited" => exitCode # 0

\* The second stage's constructor rejected its configuration after the first
\* stage had been constructed; the process has exited.
C17_Witness ==
    /\ conf # Unread /\ conf # None
    /\ Len(conf.plugins) = 2
    /\ Len(plugins) = 1
    /\ startup = "invalid_config"
    /\ runPc = "exited"
    /\ exitCode = 1

\* The pipe ends of the t-th awaitable: the source task and the destination
\* task are called with (r_pipe, w_pipe), a filter with (src_r, src_w, dst_r,
\* dst_w).
FwdRead(a) == a[1]
RevWrite(a) == a[2]
RevRead(a) == IF Len(a) = 2 THEN a[1] ELSE a[3]
FwdWrite(a) == IF Len(a) = 2 THEN a[2] ELSE a[4]

\* C20: for a chain of N filters main() opens 2(N+1) pipes and hands each end
\* of each to exactly one task; what a stage writes forward the next stage
\* reads, what a stage writes back the stage before reads; the tasks of the
\* pipeline run on these ends, and with N = 0 there are the source and the
\* destination task only.
C20_EachEndToOneTask ==
    (conf # Unread /\ startup = "ok") =>
        LET b == main_build(conf)
            aw == b.awaitables
            Handed(e) == {tj \in (1..Len(aw)) \X (1..4) : tj[2] <= Len(aw[tj[1]]) /\ aw[tj[1]][tj[2]] = e}
        IN  /\ N = Len(conf.plugins)
            /\ b.npipes = 2 * (N + 1)
            /\ Len(aw) = N + 2
            /\ Len(aw[1]) = 2 /\ Len(aw[N + 2]) = 2
            /\ \A i \in Filters : Len(aw[i + 1]) = 4
            /\ \A e \in (1..b.npipes) \X {"r", "w"} : Cardinality(Handed(e)) = 1
            /\ \A t \in 1..(N + 1) :
                  /\ FwdWrite(aw[t])[2] = "w" /\ FwdRead(aw[t + 1])[2] = "r"
                  /\ FwdWrite(aw[t])[1] = FwdRead(aw[t + 1])[1]
                  /\ RevWrite(aw[t + 1])[2] = "w" /\ RevRead(aw[t])[2] = "r"
                  /\ RevWrite(aw[t + 1])[1] = RevRead(aw[t])[1]
            /\ \A s \in Stages : \A j \in 1..Len(aw[s + 1]) :
                  <<pipe_name(aw[s + 1][j][1]), aw[s + 1][j][2]>> = task_ends(s)[j]

\* The tasks of a chain of two filters run, the RPC client has been spawned.
C20_Witness ==
    /\ conf # Unread /\ startup = "ok"
    /\ N = 2
    /\ \A s \in Stages : task[s].status = "running"
    /\ sub.state = "running"

\* C18: a destination task that has ended without having been cancelled has
\* taken the RPC client's exit status and has closed both of its endpoints;
\* with a status other than 0 it failed with a RuntimeError, and the process
\* then exits with a status other than 0; with status 0 it returned.
C18_DestinationFollowsExitStatus ==
    /\ (Ended(DST) /\ task[DST].status # "cancelled") =>
          /\ sub.state = "exited"
          /\ AllClosed(destination_ends)
          /\ sub.ret # 0 => task[DST].status = "failed" /\ task[DST].exc = "RuntimeError"
          /\ sub.ret = 0 => task[DST].status = "returned"
    /\ (runPc = "exited" /\ task[DST].status = "failed") => exitCode # 0

\* The client exited with 1 after the reply had reached the source VM; the
\* destination task failed and the process has exited.
C18_Witness ==
    /\ sub.state = "exited" /\ sub.ret = 1
    /\ task[DST].status = "failed"
    /\ io.hist[STDOUT] # <<>>
    /\ runPc = "exited"

\* Every task returned and the process exited with status 0.
Success ==
    /\ runPc = "exited"
    /\ exitCode = 0
    /\ \A s \in Stages : task[s].status = "returned"

\* The source VM no longer listens on the proxy's stdout.
VmStoppedListening == "peer" \notin io.ropen[STDOUT]

\* C19 as stated: in a chain of pass and byte_limit stages, once the source
\* VM has closed stdin and the destination has read its input to EOF, closed
\* its output and exited with 0, a session that is over has ended with
\* success, every task having returned.
C19_CleanPeersGiveSuccess ==
    (runPc = "exited" /\ "peer" \notin io.wopen[STDIN] /\ sub.state = "exited") => Success

\* C19, amended: if moreover the source VM keeps listening on the proxy's
\* stdout and reads what it is sent, then eventually every task has returned
\* and the process has exited with status 0.
C19_ListeningSourceGivesSuccess == <>(VmStoppedListening \/ Success)

\* A session has ended with success after a byte went each way.
C19_Witness ==
    /\ Success
    /\ ~VmStoppedListening
    /\ io.hist[STDOUT] # <<>>
    /\ io.hist[F(N)] # <<>>

\* C28: when a close() in proxy_wrapper's finally block raises (a writer whose
\* buffered bytes can no longer be flushed, its reader being gone), the other
\* endpoints of the stage are closed all the same: the step in which the task
\* of a filter ends with the error of a close leaves all four endpoints closed.
C28_RaisingCloseDoesNotStopTheOthers ==
    [][\A i \in Filters :
          (/\ task[i].status = "running"
           /\ task'[i].status # "running"
           /\ close_each(io, wrapper_ends(i)).err # NONE)
          => AllClosed(wrapper_ends(i))']_vars

\* The bytes the writer of copy c has accepted: written to the pipe or buffered.
Accepted(c) == Len(io.hist[Writer(c)]) + Len(io.wbuf[Writer(c)])

\* The state the coroutine of copy c is in after its next run.
AfterRun(c) == run_to_await(c, [io |-> io, l |-> co[c], halt |-> "go"])

\* C22: a byte_limit copy that has forwarded its L bytes closes its downstream
\* write end at its next run unless the writer still waits for room
\* downstream, whatever upstream holds; it has read no byte beyond the first L
\* before that close; and once it discards, each run takes everything upstream
\* holds, ends at upstream EOF and goes on otherwise, whatever the state of
\* the downstream pipe.
C22_LimitReachedClosesThenDrains ==
    \A c \in LimitedCopies :
        /\ (/\ Live(c) /\ ~co[c].cancel
            /\ Accepted(c) = size_arg(c)
            /\ "obj" \in io.wopen[Writer(c)]
            /\ writer_flush(io, Writer(c)).err = NONE)
           => "obj" \notin AfterRun(c).io.wopen[Writer(c)]
        /\ io.rpos[Reader(c)] > size_arg(c) => "obj" \notin io.wopen[Writer(c)]
        /\ co[c].pc = "discard" => "obj" \notin io.wopen[Writer(c)]
        /\ (co[c].pc = "discard" /\ ~co[c].cancel /\ "obj" \in io.ropen[Reader(c)]) =>
              /\ AfterRun(c).io.rpos[Reader(c)] = Len(io.hist[Reader(c)])
              /\ io.wopen[Reader(c)] = {} => AfterRun(c).halt = "done" /\ AfterRun(c).l.exc = NONE
              /\ io.wopen[Reader(c)] # {} => AfterRun(c).l.pc = "discard"

\* A byte_limit copy with a limit of one byte drops a byte that upstream sent
\* beyond the limit, upstream not being at EOF and the byte it forwarded still
\* unread downstream.
C22_Witness ==
    \E c \in LimitedCopies :
        /\ size_arg(c) = 1
        /\ co[c].pc = "discard"
        /\ io.rpos[Reader(c)] > 1
        /\ io.wopen[Reader(c)] # {}
        /\ Content(io, Writer(c)) # <<>>

\* connect_noblock of copy c is over: the copy has ended, or
\* connect_then_discard has gone on to discard_noblock.
Finished(c) == co[c].pc \in {"discard", "done"}

\* C25: in the step in which connect_noblock(reader, writer, close, size)
\* finishes - at EOF, at the size limit or with an error other than the
\* cancellation of the session - it has transferred at most size bytes, the
\* writer holds no unflushed byte, and with close = True the reader and the
\* writer are closed.
C25_FinishedCopyFlushedAndClosed ==
    [][\A c \in Copiers :
          (~Finished(c) /\ Finished(c)' /\ co'[c].exc # "CancelledError") =>
              /\ size_arg(c) >= 0 => Len(io'.hist[Writer(c)]) <= size_arg(c)
              /\ io'.wbuf[Writer(c)] = <<>>
              /\ close_arg(c) => /\ "obj" \notin io'.ropen[Reader(c)]
                                 /\ "obj" \notin io'.wopen[Writer(c)]]_vars

\* C23: when the constructor of the filter at position i raised and main()
\* has ended, both ends of every pipe main() had opened before - the two
\* initial pipes and the two of each filter before position i - are closed.
C23_AbortedBuildClosesOpenedPipes ==
    (startup = "invalid_config" /\ mainPc = "ended") =>
        \A p \in EnginePipes(N) : EndClosed(<<p, "r">>) /\ EndClosed(<<p, "w">>)

\* C29: a lock directory a count stage created is removed on every way out
\* of the admission check (admission, refusal, a malformed counter file, a
\* counter file that cannot be opened): the directory exists only while a
\* session is between creating and removing it, so no session waits for a
\* lock that nobody holds.
C29_LockRemovedOnEveryWayOut ==
    lock_path => \E p \in Procs : Holding(p)

\* No session is inside its admission check.
Quiet == \A p \in Procs : sess[p].pc \in {"wait_for_lock", "done"}

\* What the counter file is to hold after check j: the entries of the
\* sessions admitted less than limit_interval before it, and the entry of
\* check j itself when it let the session in.
EntriesAfter(j) ==
    LET InWindow(i) == i \in AdmittedInWindow(j)
        prev == SelectSeq([i \in 1..(j - 1) |-> i], InWindow)
        old == [k \in 1..Len(prev) |-> str(int_time(checks[prev[k]].at))]
    IN  IF Admitted(j) THEN Append(old, str(int_time(checks[j].at))) ELSE old

\* C30: after a session's admission check is over the counter file holds
\* exactly the earlier entries still younger than limit_interval, plus the
\* session's own start time when it was admitted and nothing more when it was
\* refused.
C30_RefusalAddsNoEntry ==
    (Quiet /\ checks # <<>>) => count_file = join(EntriesAfter(Len(checks)))

\* The copies that are inside connect_noblock with their writer open and no
\* exception raised.
Copying(c) ==
    /\ co[c].pc \in {"read", "write", "flush"}
    /\ co[c].exc = NONE
    /\ ~co[c].cancel
    /\ "obj" \in io.wopen[Writer(c)]

\* C24: write_noblock(writer, b) returns only when the writer has accepted
\* every byte of b, and whatever writer.write() accepts at each attempt - all,
\* a part with BlockingIOError, or nothing - the writer is given each byte of b
\* once and in order: at every await of a copy, what its writer has accepted
\* followed by what write_noblock still has to write is what was read, and
\* nothing is left to write when the call has returned.
C24_WriterAcceptsExactlyB ==
    \A c \in Copiers :
        Copying(c) =>
            /\ io.hist[Writer(c)] \o io.wbuf[Writer(c)] \o co[c].buf
                  = Take(io.hist[Reader(c)], io.rpos[Reader(c)])
            /\ co[c].pc # "write" => co[c].buf = <<>>

\* A write_noblock whose writer took a part of b and raised BlockingIOError
\* waits to retry with the rest.
C24_Witness ==
    \E c \in Copiers :
        /\ Copying(c)
        /\ co[c].pc = "write"
        /\ co[c].buf # <<>>
        /\ Len(co[c].buf) < READ_BUF_SIZE
        /\ io.wbuf[Writer(c)] # <<>>

\* ------------------------------------------------------------------ sniff
\* base64.b64decode() and bytes.fromhex(): the bytes a log text stands for.
RECURSIVE b64decode(_)
b64decode(t) ==
    IF t = <<>> THEN <<>>
    ELSE LET v(k) == IF t[k] = 64 THEN 0 ELSE t[k]
             n == v(1) * 262144 + v(2) * 4096 + v(3) * 64 + v(4)
             keep == IF t[3] = 64 THEN 1 ELSE IF t[4] = 64 THEN 2 ELSE 3
         IN  Take(<<n \div 65536, (n \div 256) % 256, n % 256>>, keep) \o b64decode(Drop(t, 4))

RECURSIVE fromhex(_)
fromhex(t) ==
    IF t = <<>> THEN <<>> ELSE <<t[1] * 16 + t[2]>> \o fromhex(Drop(t, 2))

\* The chunks of the data records that name src as their sender, in log order.
RECURSIVE LoggedBytes(_, _, _)
LoggedBytes(recs, pl, src) ==
    IF recs = <<>> THEN <<>>
    ELSE (IF recs[1].src # src THEN <<>>
          ELSE IF pl.decode = "base64" THEN b64decode(recs[1].text)
          ELSE fromhex(recs[1].text))
         \o LoggedBytes(Tail(recs), pl, src)

SniffCopies == {c \in Copiers : IsSniff(c[1])}

\* C21: for each direction of a sniff stage, the chunks logged for that
\* direction, concatenated in log order, are the bytes read from its reader;
\* what the writer has accepted is a prefix of what is logged (a chunk is
\* logged before it is written); while the copy has met no exception, the bytes
\* read are the bytes written or about to be, unchanged and in order, and a
\* copy that returned has delivered all its upstream sent.
C21_SniffLogsWhatItForwards ==
    \A c \in SniffCopies :
        LET read == Take(io.hist[Reader(c)], io.rpos[Reader(c)])
            logged == LoggedBytes(io.sniffed, plugins[c[1]],
                                  IF c[2] = "fwd" THEN "src" ELSE "dst")
            accepted == io.hist[Writer(c)] \o io.wbuf[Writer(c)]
        IN  /\ logged = read
            /\ IsPrefix(accepted, logged)
            /\ (co[c].exc = NONE /\ ~Ended(c[1])) => accepted \o co[c].buf = read
            /\ (co[c].pc = "done" /\ co[c].exc = NONE)
                  => io.hist[Writer(c)] = io.hist[Reader(c)]

\* A base64 sniff stage logged two chunks of the way forward, one of them a
\* single byte (its text ends in '='), and one of the way back; the copy
\* forward returned.
C21_Witness ==
    /\ IsSniff(1) /\ plugins[1].decode = "base64"
    /\ co[<<1, "fwd">>].pc = "done" /\ co[<<1, "fwd">>].exc = NONE
    /\ Cardinality({k \in DOMAIN io.sniffed : io.sniffed[k].src = "src"}) = 2
    /\ \E k \in DOMAIN io.sniffed : io.sniffed[k].src = "src" /\ io.sniffed[k].text[3] = 64
    /\ \E k \in DOMAIN io.sniffed : io.sniffed[k].src = "dst"
    /\ Len(io.hist[F(1)]) = 2

\* ------------------------------------------------------------- streamline
StreamlineCopies == {c \in Copiers : IsStreamline(c[1])}

\* b''.join(blocks)
RECURSIVE Joined(_)
Joined(bs) == IF bs = <<>> THEN <<>> ELSE bs[1] \o Joined(Tail(bs))

\* The reader is at EOF: no writer is left and everything was read.
AtEOF(p) == io.wopen[p] = {} /\ io.rpos[p] = Len(io.hist[p])

\* C26: read_full_noblock(reader, n), n > 0, as connect_streamline calls it.
\* While it collects, it holds at most n bytes and the reader has given out
\* nothing but them since the call.  What it returned (the block that is
\* being written) has at most n bytes, which are the bytes of the stream that
\* follow those of the earlier calls, in order; the reader has given out no
\* byte beyond them; and it has fewer than n bytes only if the reader is at
\* EOF.  A copy that left its loop without exception has seen EOF.
C26_ReadFullReturnsNextBytesUpToN ==
    \A c \in StreamlineCopies :
        LET n == plugins[c[1]].buf_size
            ret == co[c].chunks
            earlier == IF co[c].pc = "write" THEN Joined(Take(io.blocks[Writer(c)], Len(io.blocks[Writer(c)]) - 1))
                       ELSE Joined(io.blocks[Writer(c)])
        IN  /\ co[c].pc \in {"read_full", "write"} =>
                  /\ Len(ret) <= n
                  /\ io.rpos[Reader(c)] = Len(earlier) + Len(ret)
                  /\ earlier \o ret = Take(io.hist[Reader(c)], io.rpos[Reader(c)])
            /\ co[c].pc = "write" =>
                  /\ ret # <<>>
                  /\ Len(ret) < n => AtEOF(Reader(c))
            /\ (co[c].pc \in {"flush", "done"} /\ co[c].exc = NONE) => AtEOF(Reader(c))

\* The copy forward holds a full block while a further byte waits unread in
\* its reader, and the copy back holds a short block, its reader at EOF.
C26_Witness ==
    /\ IsStreamline(1)
    /\ co[<<1, "fwd">>].pc = "write" /\ Len(co[<<1, "fwd">>].chunks) = plugins[1].buf_size
    /\ Content(io, F(0)) # <<>>
    /\ co[<<1, "rev">>].pc = "write" /\ Len(co[<<1, "rev">>].chunks) < plugins[1].buf_size

\* C27: in each direction of a streamline stage with window B, every block
\* handed to write_noblock has B bytes, but for the last, which is shorter
\* only with the reader at EOF; the writer never accepts anything but the
\* blocks, in order; while the copy has met no exception, the blocks joined
\* are the bytes read from upstream (with what the next block has collected
\* so far), and a copy that returned has written all of them downstream.
C27_StreamlineWritesFullBlocks ==
    \A c \in StreamlineCopies :
        LET B == plugins[c[1]].buf_size
            bs == io.blocks[Writer(c)]
            read == Take(io.hist[Reader(c)], io.rpos[Reader(c)])
            accepted == io.hist[Writer(c)] \o io.wbuf[Writer(c)]
        IN  /\ \A k \in 1..Len(bs) :
                  /\ Len(bs[k]) \in 1..B
                  /\ k < Len(bs) => Len(bs[k]) = B
                  /\ Len(bs[k]) < B => AtEOF(Reader(c))
            /\ IsPrefix(accepted, Joined(bs))
            /\ (co[c].exc = NONE /\ ~Ended(c[1])) => accepted \o co[c].buf = Joined(bs)
            /\ co[c].exc = NONE =>
                  Joined(bs) \o (IF co[c].pc = "read_full" THEN co[c].chunks ELSE <<>>) = read
            /\ (co[c].pc = "done" /\ co[c].exc = NONE) =>
                  /\ io.hist[Writer(c)] = Joined(bs)
                  /\ io.hist[Writer(c)] = io.hist[Reader(c)]

\* The copy forward returned after a full block and a short one, both of
\* which reached the next pipe.
C27_Witness ==
    /\ IsStreamline(1)
    /\ co[<<1, "fwd">>].pc = "done" /\ co[<<1, "fwd">>].exc = NONE
    /\ Len(io.blocks[F(1)]) = 2
    /\ Len(io.blocks[F(1)][1]) = plugins[1].buf_size
    /\ Len(io.blocks[F(1)][2]) < plugins[1].buf_size
    /\ io.hist[F(1)] = Joined(io.blocks[F(1)])

\* ------------------------------------------- the copy a failed stage leaves
\* The task of filter i ended with the exception of one of its directions
\* (TimeoutError included) while the copy c of the other is still scheduled.
LeftBehind(c) ==
    /\ c[1] \in Filters
    /\ task[c[1]].status = "failed"
    /\ Live(c)
    /\ \E d \in Dirs : d # c[2] /\ co[<<c[1], d>>].pc = "done" /\ co[<<c[1], d>>].exc # NONE

\* C31: once a filter's task has ended because one direction failed or timed
\* out, no step lets the copy of the other direction take a byte from its
\* reader or give one to its writer (into its buffer or into the pipe).
C31_LeftBehindCopyMovesNothing ==
    [][\A c \in Copiers :
          LeftBehind(c) =>
             /\ io.rpos[Reader(c)]' = io.rpos[Reader(c)]
             /\ io.hist[Writer(c)]' = io.hist[Writer(c)]
             /\ Len(io.wbuf[Writer(c)]') <= Len(io.wbuf[Writer(c)])]_vars

====
